---- MODULE Spec2Model ----
(***************************************************************************)
(* mediadc-massdedupe: removal of the duplicates reported by MediaDC,      *)
(* keeping one file per group (src/massdedupe.ts).                         *)
(*                                                                         *)
(* Strings are sequences of one-character strings, so that toUpperCase,    *)
(* trim, includes, startsWith and split/join are computed and not assumed. *)
(* A file is a record [fileid, filepath, filesize] (src/types.ts).         *)
(***************************************************************************)
EXTENDS Integers, Sequences, FiniteSets, TLC

VARIABLES
    args,        \* parsed options: dryRun, cacheInfo, exclude, include
    results,     \* dc.Results: the groups of the exported json
    cacheFile,   \* the file at cachePath: [exists, parses, data]
    run,         \* number of the current execution of the program
    pc,          \* position of the current execution
    thrown,      \* the call whose error reached main().catch, or "none"
    fileInfo,    \* getFilesInfo: path -> FileStat (TRUE) or false
    i,           \* getFilesInfo: counter of the files read so far
    statCalls,   \* log of webdavClient.stat calls of this execution
    cacheRead,   \* whether this execution read the file at cachePath
    loaded,      \* paths that were in fileInfo right after the cache was read
    recorded,    \* paths written to fileInfo by this execution
    failed,      \* paths whose stat threw in this execution
    prevFailed,  \* paths whose stat threw in the previous execution
    g,           \* main: index of the group being processed
    files,       \* main: live files of the group, sorted
    toDelete,    \* main: Map fileid -> reason
    firstNonIncludedWithSameSize,
    keptOne,
    fallback,    \* main: which operand of line 213-215 was taken, or "none"
    d,           \* main: index in the deletion loop
    deleted,
    deletedSize,
    deleteCalls, \* log of webdavClient.deleteFile calls: [path, arg, ok]
    prototypeKeys \* names that printFileSummary added to Object.prototype

vars == <<args, results, cacheFile, run, pc, thrown, fileInfo, i, statCalls,
          cacheRead, loaded, recorded, failed, prevFailed, g, files,
          toDelete, firstNonIncludedWithSameSize, keptOne, fallback, d,
          deleted, deletedSize, deleteCalls, prototypeKeys>>

(***************************************************************************)
(* Bounds                                                                  *)
(***************************************************************************)
MaxFiles == 3
MaxRuns == 2

(***************************************************************************)
(* Strings                                                                 *)
(***************************************************************************)
\* A string literal split into its characters
chars(str) == [n \in 1..Len(str) |-> SubSeq(str, n, n)]

\* A character is one UTF-16 code unit, as in a JavaScript string. A code
\* unit that cannot be written in a string literal here (U+0100 to U+FFFF
\* with bit 7 clear, and the surrogates) is written by the name of its code
\* point, "U+" and four hexadecimal digits, which stands for that one
\* character: <<"U+0178">> is a string of length 1.
\*
\* Lower and Upper: the characters whose capital is one character, in the
\* same order. Expanding and Expanded: the characters whose capital is two
\* or three characters, and these capitals, three places for each with ""
\* in a place that holds no character. PairLower and PairUpper: the code
\* points above U+FFFF that have a capital, each as its two surrogates. The
\* mapping is the one of the Unicode Character Database 17.0
\* (UnicodeData.txt and the unconditional mappings of SpecialCasing.txt),
\* which is what String.prototype.toUpperCase applies whatever the locale.
Lower ==
    <<"a", "b", "c", "d", "e", "f", "g", "h", "i", "j", "k", "l", "m", "n",
      "o", "p", "q", "r", "s", "t", "u", "v", "w", "x", "y", "z", "µ", "à",
      "á", "â", "ã", "ä", "å", "æ", "ç", "è", "é", "ê", "ë", "ì", "í", "î",
      "ï", "ð", "ñ", "ò", "ó", "ô", "õ", "ö", "ø", "ù", "ú", "û", "ü", "ý",
      "þ", "ÿ", "U+0101", "U+0103", "U+0105", "U+0107", "U+0109", "U+010B",
      "U+010D", "U+010F", "U+0111", "U+0113", "U+0115", "U+0117", "U+0119",
      "U+011B", "U+011D", "U+011F", "U+0121", "U+0123", "U+0125", "U+0127",
      "U+0129", "U+012B", "U+012D", "U+012F", "U+0131", "U+0133", "U+0135",
      "U+0137", "U+013A", "U+013C", "U+013E", "U+0140", "U+0142", "U+0144",
      "U+0146", "U+0148", "U+014B", "U+014D", "U+014F", "U+0151", "U+0153",
      "U+0155", "U+0157", "U+0159", "U+015B", "U+015D", "U+015F", "U+0161",
      "U+0163", "U+0165", "U+0167", "U+0169", "U+016B", "U+016D", "U+016F",
      "U+0171", "U+0173", "U+0175", "U+0177", "U+017A", "U+017C", "U+017E",
      "U+017F", "ƀ", "ƃ", "ƅ", "ƈ", "ƌ", "ƒ", "ƕ", "ƙ", "ƚ", "ƛ", "ƞ", "ơ",
      "ƣ", "ƥ", "ƨ", "ƭ", "ư", "ƴ", "ƶ", "ƹ", "ƽ", "ƿ", "ǅ", "ǆ", "ǈ", "ǉ",
      "ǋ", "ǌ", "ǎ", "ǐ", "ǒ", "ǔ", "ǖ", "ǘ", "ǚ", "ǜ", "ǝ", "ǟ", "ǡ", "ǣ",
      "ǥ", "ǧ", "ǩ", "ǫ", "ǭ", "ǯ", "ǲ", "ǳ", "ǵ", "ǹ", "ǻ", "ǽ", "ǿ",
      "U+0201", "U+0203", "U+0205", "U+0207", "U+0209", "U+020B", "U+020D",
      "U+020F", "U+0211", "U+0213", "U+0215", "U+0217", "U+0219", "U+021B",
      "U+021D", "U+021F", "U+0223", "U+0225", "U+0227", "U+0229", "U+022B",
      "U+022D", "U+022F", "U+0231", "U+0233", "U+023C", "U+023F", "U+0240",
      "U+0242", "U+0247", "U+0249", "U+024B", "U+024D", "U+024F", "U+0250",
      "U+0251", "U+0252", "U+0253", "U+0254", "U+0256", "U+0257", "U+0259",
      "U+025B", "U+025C", "U+0260", "U+0261", "U+0263", "U+0264", "U+0265",
      "U+0266", "U+0268", "U+0269", "U+026A", "U+026B", "U+026C", "U+026F",
      "U+0271", "U+0272", "U+0275", "U+027D", "ʀ", "ʂ", "ʃ", "ʇ", "ʈ", "ʉ",
      "ʊ", "ʋ", "ʌ", "ʒ", "ʝ", "ʞ", "U+0345", "U+0371", "U+0373", "U+0377",
      "U+037B", "U+037C", "U+037D", "ά", "έ", "ή", "ί", "α", "β", "γ", "δ",
      "ε", "ζ", "η", "θ", "ι", "κ", "λ", "μ", "ν", "ξ", "ο", "π", "ρ", "ς",
      "σ", "τ", "υ", "φ", "χ", "ψ", "ω", "ϊ", "ϋ", "ό", "ύ", "ώ", "ϐ", "ϑ",
      "ϕ", "ϖ", "ϗ", "ϙ", "ϛ", "ϝ", "ϟ", "ϡ", "ϣ", "ϥ", "ϧ", "ϩ", "ϫ", "ϭ",
      "ϯ", "ϰ", "ϱ", "ϲ", "ϳ", "ϵ", "ϸ", "ϻ", "U+0430", "U+0431", "U+0432",
      "U+0433", "U+0434", "U+0435", "U+0436", "U+0437", "U+0438", "U+0439",
      "U+043A", "U+043B", "U+043C", "U+043D", "U+043E", "U+043F", "U+0440",
      "U+0441", "U+0442", "U+0443", "U+0444", "U+0445", "U+0446", "U+0447",
      "U+0448", "U+0449", "U+044A", "U+044B", "U+044C", "U+044D", "U+044E",
      "U+044F", "U+0450", "U+0451", "U+0452", "U+0453", "U+0454", "U+0455",
      "U+0456", "U+0457", "U+0458", "U+0459", "U+045A", "U+045B", "U+045C",
      "U+045D", "U+045E", "U+045F", "U+0461", "U+0463", "U+0465", "U+0467",
      "U+0469", "U+046B", "U+046D", "U+046F", "U+0471", "U+0473", "U+0475",
      "U+0477", "U+0479", "U+047B", "U+047D", "U+047F", "ҁ", "ҋ", "ҍ", "ҏ",
      "ґ", "ғ", "ҕ", "җ", "ҙ", "қ", "ҝ", "ҟ", "ҡ", "ң", "ҥ", "ҧ", "ҩ", "ҫ",
      "ҭ", "ү", "ұ", "ҳ", "ҵ", "ҷ", "ҹ", "һ", "ҽ", "ҿ", "ӂ", "ӄ", "ӆ", "ӈ",
      "ӊ", "ӌ", "ӎ", "ӏ", "ӑ", "ӓ", "ӕ", "ӗ", "ә", "ӛ", "ӝ", "ӟ", "ӡ", "ӣ",
      "ӥ", "ӧ", "ө", "ӫ", "ӭ", "ӯ", "ӱ", "ӳ", "ӵ", "ӷ", "ӹ", "ӻ", "ӽ", "ӿ",
      "U+0501", "U+0503", "U+0505", "U+0507", "U+0509", "U+050B", "U+050D",
      "U+050F", "U+0511", "U+0513", "U+0515", "U+0517", "U+0519", "U+051B",
      "U+051D", "U+051F", "U+0521", "U+0523", "U+0525", "U+0527", "U+0529",
      "U+052B", "U+052D", "U+052F", "U+0561", "U+0562", "U+0563", "U+0564",
      "U+0565", "U+0566", "U+0567", "U+0568", "U+0569", "U+056A", "U+056B",
      "U+056C", "U+056D", "U+056E", "U+056F", "U+0570", "U+0571", "U+0572",
      "U+0573", "U+0574", "U+0575", "U+0576", "U+0577", "U+0578", "U+0579",
      "U+057A", "U+057B", "U+057C", "U+057D", "U+057E", "U+057F", "ր", "ց",
      "ւ", "փ", "ք", "օ", "ֆ", "ა", "ბ", "გ", "დ", "ე", "ვ", "ზ", "თ", "ი",
      "კ", "ლ", "მ", "ნ", "ო", "პ", "ჟ", "რ", "ს", "ტ", "უ", "ფ", "ქ", "ღ",
      "ყ", "შ", "ჩ", "ც", "ძ", "წ", "ჭ", "ხ", "ჯ", "ჰ", "ჱ", "ჲ", "ჳ", "ჴ",
      "ჵ", "ჶ", "ჷ", "ჸ", "ჹ", "ჺ", "ჽ", "ჾ", "ჿ", "ᏸ", "ᏹ", "ᏺ", "ᏻ", "ᏼ",
      "ᏽ", "ᲀ", "ᲁ", "ᲂ", "ᲃ", "ᲄ", "ᲅ", "ᲆ", "ᲇ", "ᲈ", "ᲊ", "U+1D79",
      "U+1D7D", "ᶎ", "U+1E01", "U+1E03", "U+1E05", "U+1E07", "U+1E09",
      "U+1E0B", "U+1E0D", "U+1E0F", "U+1E11", "U+1E13", "U+1E15", "U+1E17",
      "U+1E19", "U+1E1B", "U+1E1D", "U+1E1F", "U+1E21", "U+1E23", "U+1E25",
      "U+1E27", "U+1E29", "U+1E2B", "U+1E2D", "U+1E2F", "U+1E31", "U+1E33",
      "U+1E35", "U+1E37", "U+1E39", "U+1E3B", "U+1E3D", "U+1E3F", "U+1E41",
      "U+1E43", "U+1E45", "U+1E47", "U+1E49", "U+1E4B", "U+1E4D", "U+1E4F",
      "U+1E51", "U+1E53", "U+1E55", "U+1E57", "U+1E59", "U+1E5B", "U+1E5D",
      "U+1E5F", "U+1E61", "U+1E63", "U+1E65", "U+1E67", "U+1E69", "U+1E6B",
      "U+1E6D", "U+1E6F", "U+1E71", "U+1E73", "U+1E75", "U+1E77", "U+1E79",
      "U+1E7B", "U+1E7D", "U+1E7F", "ẁ", "ẃ", "ẅ", "ẇ", "ẉ", "ẋ", "ẍ", "ẏ",
      "ẑ", "ẓ", "ẕ", "ẛ", "ạ", "ả", "ấ", "ầ", "ẩ", "ẫ", "ậ", "ắ", "ằ", "ẳ",
      "ẵ", "ặ", "ẹ", "ẻ", "ẽ", "ế", "ề", "ể", "ễ", "ệ", "ỉ", "ị", "ọ", "ỏ",
      "ố", "ồ", "ổ", "ỗ", "ộ", "ớ", "ờ", "ở", "ỡ", "ợ", "ụ", "ủ", "ứ", "ừ",
      "ử", "ữ", "ự", "ỳ", "ỵ", "ỷ", "ỹ", "ỻ", "ỽ", "ỿ", "U+1F00", "U+1F01",
      "U+1F02", "U+1F03", "U+1F04", "U+1F05", "U+1F06", "U+1F07", "U+1F10",
      "U+1F11", "U+1F12", "U+1F13", "U+1F14", "U+1F15", "U+1F20", "U+1F21",
      "U+1F22", "U+1F23", "U+1F24", "U+1F25", "U+1F26", "U+1F27", "U+1F30",
      "U+1F31", "U+1F32", "U+1F33", "U+1F34", "U+1F35", "U+1F36", "U+1F37",
      "U+1F40", "U+1F41", "U+1F42", "U+1F43", "U+1F44", "U+1F45", "U+1F51",
      "U+1F53", "U+1F55", "U+1F57", "U+1F60", "U+1F61", "U+1F62", "U+1F63",
      "U+1F64", "U+1F65", "U+1F66", "U+1F67", "U+1F70", "U+1F71", "U+1F72",
      "U+1F73", "U+1F74", "U+1F75", "U+1F76", "U+1F77", "U+1F78", "U+1F79",
      "U+1F7A", "U+1F7B", "U+1F7C", "U+1F7D", "ᾰ", "ᾱ", "ι", "ῐ", "ῑ", "ῠ",
      "ῡ", "ῥ", "U+214E", "U+2170", "U+2171", "U+2172", "U+2173", "U+2174",
      "U+2175", "U+2176", "U+2177", "U+2178", "U+2179", "U+217A", "U+217B",
      "U+217C", "U+217D", "U+217E", "U+217F", "ↄ", "ⓐ", "ⓑ", "ⓒ", "ⓓ", "ⓔ",
      "ⓕ", "ⓖ", "ⓗ", "ⓘ", "ⓙ", "ⓚ", "ⓛ", "ⓜ", "ⓝ", "ⓞ", "ⓟ", "ⓠ", "ⓡ", "ⓢ",
      "ⓣ", "ⓤ", "ⓥ", "ⓦ", "ⓧ", "ⓨ", "ⓩ", "U+2C30", "U+2C31", "U+2C32",
      "U+2C33", "U+2C34", "U+2C35", "U+2C36", "U+2C37", "U+2C38", "U+2C39",
      "U+2C3A", "U+2C3B", "U+2C3C", "U+2C3D", "U+2C3E", "U+2C3F", "U+2C40",
      "U+2C41", "U+2C42", "U+2C43", "U+2C44", "U+2C45", "U+2C46", "U+2C47",
      "U+2C48", "U+2C49", "U+2C4A", "U+2C4B", "U+2C4C", "U+2C4D", "U+2C4E",
      "U+2C4F", "U+2C50", "U+2C51", "U+2C52", "U+2C53", "U+2C54", "U+2C55",
      "U+2C56", "U+2C57", "U+2C58", "U+2C59", "U+2C5A", "U+2C5B", "U+2C5C",
      "U+2C5D", "U+2C5E", "U+2C5F", "U+2C61", "U+2C65", "U+2C66", "U+2C68",
      "U+2C6A", "U+2C6C", "U+2C73", "U+2C76", "ⲁ", "ⲃ", "ⲅ", "ⲇ", "ⲉ", "ⲋ",
      "ⲍ", "ⲏ", "ⲑ", "ⲓ", "ⲕ", "ⲗ", "ⲙ", "ⲛ", "ⲝ", "ⲟ", "ⲡ", "ⲣ", "ⲥ", "ⲧ",
      "ⲩ", "ⲫ", "ⲭ", "ⲯ", "ⲱ", "ⲳ", "ⲵ", "ⲷ", "ⲹ", "ⲻ", "ⲽ", "ⲿ", "ⳁ", "ⳃ",
      "ⳅ", "ⳇ", "ⳉ", "ⳋ", "ⳍ", "ⳏ", "ⳑ", "ⳓ", "ⳕ", "ⳗ", "ⳙ", "ⳛ", "ⳝ", "ⳟ",
      "ⳡ", "ⳣ", "ⳬ", "ⳮ", "ⳳ", "U+2D00", "U+2D01", "U+2D02", "U+2D03",
      "U+2D04", "U+2D05", "U+2D06", "U+2D07", "U+2D08", "U+2D09", "U+2D0A",
      "U+2D0B", "U+2D0C", "U+2D0D", "U+2D0E", "U+2D0F", "U+2D10", "U+2D11",
      "U+2D12", "U+2D13", "U+2D14", "U+2D15", "U+2D16", "U+2D17", "U+2D18",
      "U+2D19", "U+2D1A", "U+2D1B", "U+2D1C", "U+2D1D", "U+2D1E", "U+2D1F",
      "U+2D20", "U+2D21", "U+2D22", "U+2D23", "U+2D24", "U+2D25", "U+2D27",
      "U+2D2D", "U+A641", "U+A643", "U+A645", "U+A647", "U+A649", "U+A64B",
      "U+A64D", "U+A64F", "U+A651", "U+A653", "U+A655", "U+A657", "U+A659",
      "U+A65B", "U+A65D", "U+A65F", "U+A661", "U+A663", "U+A665", "U+A667",
      "U+A669", "U+A66B", "U+A66D", "ꚁ", "ꚃ", "ꚅ", "ꚇ", "ꚉ", "ꚋ", "ꚍ", "ꚏ",
      "ꚑ", "ꚓ", "ꚕ", "ꚗ", "ꚙ", "ꚛ", "U+A723", "U+A725", "U+A727", "U+A729",
      "U+A72B", "U+A72D", "U+A72F", "U+A733", "U+A735", "U+A737", "U+A739",
      "U+A73B", "U+A73D", "U+A73F", "U+A741", "U+A743", "U+A745", "U+A747",
      "U+A749", "U+A74B", "U+A74D", "U+A74F", "U+A751", "U+A753", "U+A755",
      "U+A757", "U+A759", "U+A75B", "U+A75D", "U+A75F", "U+A761", "U+A763",
      "U+A765", "U+A767", "U+A769", "U+A76B", "U+A76D", "U+A76F", "U+A77A",
      "U+A77C", "U+A77F", "ꞁ", "ꞃ", "ꞅ", "ꞇ", "ꞌ", "ꞑ", "ꞓ", "ꞔ", "ꞗ", "ꞙ",
      "ꞛ", "ꞝ", "ꞟ", "ꞡ", "ꞣ", "ꞥ", "ꞧ", "ꞩ", "ꞵ", "ꞷ", "ꞹ", "ꞻ", "ꞽ", "ꞿ",
      "ꟁ", "ꟃ", "ꟈ", "ꟊ", "ꟍ", "꟏", "ꟑ", "ꟓ", "ꟕ", "ꟗ", "ꟙ", "ꟛ", "ꟶ",
      "U+AB53", "U+AB70", "U+AB71", "U+AB72", "U+AB73", "U+AB74", "U+AB75",
      "U+AB76", "U+AB77", "U+AB78", "U+AB79", "U+AB7A", "U+AB7B", "U+AB7C",
      "U+AB7D", "U+AB7E", "U+AB7F", "ꮀ", "ꮁ", "ꮂ", "ꮃ", "ꮄ", "ꮅ", "ꮆ", "ꮇ",
      "ꮈ", "ꮉ", "ꮊ", "ꮋ", "ꮌ", "ꮍ", "ꮎ", "ꮏ", "ꮐ", "ꮑ", "ꮒ", "ꮓ", "ꮔ", "ꮕ",
      "ꮖ", "ꮗ", "ꮘ", "ꮙ", "ꮚ", "ꮛ", "ꮜ", "ꮝ", "ꮞ", "ꮟ", "ꮠ", "ꮡ", "ꮢ", "ꮣ",
      "ꮤ", "ꮥ", "ꮦ", "ꮧ", "ꮨ", "ꮩ", "ꮪ", "ꮫ", "ꮬ", "ꮭ", "ꮮ", "ꮯ", "ꮰ", "ꮱ",
      "ꮲ", "ꮳ", "ꮴ", "ꮵ", "ꮶ", "ꮷ", "ꮸ", "ꮹ", "ꮺ", "ꮻ", "ꮼ", "ꮽ", "ꮾ", "ꮿ",
      "U+FF41", "U+FF42", "U+FF43", "U+FF44", "U+FF45", "U+FF46", "U+FF47",
      "U+FF48", "U+FF49", "U+FF4A", "U+FF4B", "U+FF4C", "U+FF4D", "U+FF4E",
      "U+FF4F", "U+FF50", "U+FF51", "U+FF52", "U+FF53", "U+FF54", "U+FF55",
      "U+FF56", "U+FF57", "U+FF58", "U+FF59", "U+FF5A">>

Upper ==
    <<"A", "B", "C", "D", "E", "F", "G", "H", "I", "J", "K", "L", "M", "N",
      "O", "P", "Q", "R", "S", "T", "U", "V", "W", "X", "Y", "Z", "Μ", "À",
      "Á", "Â", "Ã", "Ä", "Å", "Æ", "Ç", "È", "É", "Ê", "Ë", "Ì", "Í", "Î",
      "Ï", "Ð", "Ñ", "Ò", "Ó", "Ô", "Õ", "Ö", "Ø", "Ù", "Ú", "Û", "Ü", "Ý",
      "Þ", "U+0178", "U+0100", "U+0102", "U+0104", "U+0106", "U+0108",
      "U+010A", "U+010C", "U+010E", "U+0110", "U+0112", "U+0114", "U+0116",
      "U+0118", "U+011A", "U+011C", "U+011E", "U+0120", "U+0122", "U+0124",
      "U+0126", "U+0128", "U+012A", "U+012C", "U+012E", "I", "U+0132",
      "U+0134", "U+0136", "U+0139", "U+013B", "U+013D", "U+013F", "U+0141",
      "U+0143", "U+0145", "U+0147", "U+014A", "U+014C", "U+014E", "U+0150",
      "U+0152", "U+0154", "U+0156", "U+0158", "U+015A", "U+015C", "U+015E",
      "U+0160", "U+0162", "U+0164", "U+0166", "U+0168", "U+016A", "U+016C",
      "U+016E", "U+0170", "U+0172", "U+0174", "U+0176", "U+0179", "U+017B",
      "U+017D", "S", "U+0243", "Ƃ", "Ƅ", "Ƈ", "Ƌ", "Ƒ", "Ƕ", "Ƙ", "U+023D",
      "Ƛ", "U+0220", "Ơ", "Ƣ", "Ƥ", "Ƨ", "Ƭ", "Ư", "Ƴ", "Ƶ", "Ƹ", "Ƽ", "Ƿ",
      "Ǆ", "Ǆ", "Ǉ", "Ǉ", "Ǌ", "Ǌ", "Ǎ", "Ǐ", "Ǒ", "Ǔ", "Ǖ", "Ǘ", "Ǚ", "Ǜ",
      "Ǝ", "Ǟ", "Ǡ", "Ǣ", "Ǥ", "Ǧ", "Ǩ", "Ǫ", "Ǭ", "Ǯ", "Ǳ", "Ǳ", "Ǵ", "Ǹ",
      "Ǻ", "Ǽ", "Ǿ", "U+0200", "U+0202", "U+0204", "U+0206", "U+0208",
      "U+020A", "U+020C", "U+020E", "U+0210", "U+0212", "U+0214", "U+0216",
      "U+0218", "U+021A", "U+021C", "U+021E", "U+0222", "U+0224", "U+0226",
      "U+0228", "U+022A", "U+022C", "U+022E", "U+0230", "U+0232", "U+023B",
      "U+2C7E", "U+2C7F", "U+0241", "U+0246", "U+0248", "U+024A", "U+024C",
      "U+024E", "U+2C6F", "U+2C6D", "U+2C70", "Ɓ", "Ɔ", "Ɖ", "Ɗ", "Ə", "Ɛ",
      "Ɜ", "Ɠ", "Ɡ", "Ɣ", "Ɤ", "Ɥ", "Ɦ", "Ɨ", "Ɩ", "Ɪ", "U+2C62", "Ɬ", "Ɯ",
      "U+2C6E", "Ɲ", "Ɵ", "U+2C64", "Ʀ", "Ʂ", "Ʃ", "Ʇ", "Ʈ", "U+0244", "Ʊ",
      "Ʋ", "U+0245", "Ʒ", "Ʝ", "Ʞ", "Ι", "U+0370", "U+0372", "U+0376", "Ͻ",
      "Ͼ", "Ͽ", "Ά", "Έ", "Ή", "Ί", "Α", "Β", "Γ", "Δ", "Ε", "Ζ", "Η", "Θ",
      "Ι", "Κ", "Λ", "Μ", "Ν", "Ξ", "Ο", "Π", "Ρ", "Σ", "Σ", "Τ", "Υ", "Φ",
      "Χ", "Ψ", "Ω", "Ϊ", "Ϋ", "Ό", "Ύ", "Ώ", "Β", "Θ", "Φ", "Π", "Ϗ", "Ϙ",
      "Ϛ", "Ϝ", "Ϟ", "Ϡ", "Ϣ", "Ϥ", "Ϧ", "Ϩ", "Ϫ", "Ϭ", "Ϯ", "Κ", "Ρ", "Ϲ",
      "U+037F", "Ε", "Ϸ", "Ϻ", "U+0410", "U+0411", "U+0412", "U+0413",
      "U+0414", "U+0415", "U+0416", "U+0417", "U+0418", "U+0419", "U+041A",
      "U+041B", "U+041C", "U+041D", "U+041E", "U+041F", "U+0420", "U+0421",
      "U+0422", "U+0423", "U+0424", "U+0425", "U+0426", "U+0427", "U+0428",
      "U+0429", "U+042A", "U+042B", "U+042C", "U+042D", "U+042E", "U+042F",
      "U+0400", "U+0401", "U+0402", "U+0403", "U+0404", "U+0405", "U+0406",
      "U+0407", "U+0408", "U+0409", "U+040A", "U+040B", "U+040C", "U+040D",
      "U+040E", "U+040F", "U+0460", "U+0462", "U+0464", "U+0466", "U+0468",
      "U+046A", "U+046C", "U+046E", "U+0470", "U+0472", "U+0474", "U+0476",
      "U+0478", "U+047A", "U+047C", "U+047E", "Ҁ", "Ҋ", "Ҍ", "Ҏ", "Ґ", "Ғ",
      "Ҕ", "Җ", "Ҙ", "Қ", "Ҝ", "Ҟ", "Ҡ", "Ң", "Ҥ", "Ҧ", "Ҩ", "Ҫ", "Ҭ", "Ү",
      "Ұ", "Ҳ", "Ҵ", "Ҷ", "Ҹ", "Һ", "Ҽ", "Ҿ", "Ӂ", "Ӄ", "Ӆ", "Ӈ", "Ӊ", "Ӌ",
      "Ӎ", "Ӏ", "Ӑ", "Ӓ", "Ӕ", "Ӗ", "Ә", "Ӛ", "Ӝ", "Ӟ", "Ӡ", "Ӣ", "Ӥ", "Ӧ",
      "Ө", "Ӫ", "Ӭ", "Ӯ", "Ӱ", "Ӳ", "Ӵ", "Ӷ", "Ӹ", "Ӻ", "Ӽ", "Ӿ", "U+0500",
      "U+0502", "U+0504", "U+0506", "U+0508", "U+050A", "U+050C", "U+050E",
      "U+0510", "U+0512", "U+0514", "U+0516", "U+0518", "U+051A", "U+051C",
      "U+051E", "U+0520", "U+0522", "U+0524", "U+0526", "U+0528", "U+052A",
      "U+052C", "U+052E", "U+0531", "U+0532", "U+0533", "U+0534", "U+0535",
      "U+0536", "U+0537", "U+0538", "U+0539", "U+053A", "U+053B", "U+053C",
      "U+053D", "U+053E", "U+053F", "U+0540", "U+0541", "U+0542", "U+0543",
      "U+0544", "U+0545", "U+0546", "U+0547", "U+0548", "U+0549", "U+054A",
      "U+054B", "U+054C", "U+054D", "U+054E", "U+054F", "U+0550", "U+0551",
      "U+0552", "U+0553", "U+0554", "U+0555", "U+0556", "Ა", "Ბ", "Გ", "Დ",
      "Ე", "Ვ", "Ზ", "Თ", "Ი", "Კ", "Ლ", "Მ", "Ნ", "Ო", "Პ", "Ჟ", "Რ", "Ს",
      "Ტ", "Უ", "Ფ", "Ქ", "Ღ", "Ყ", "Შ", "Ჩ", "Ც", "Ძ", "Წ", "Ჭ", "Ხ", "Ჯ",
      "Ჰ", "Ჱ", "Ჲ", "Ჳ", "Ჴ", "Ჵ", "Ჶ", "Ჷ", "Ჸ", "Ჹ", "Ჺ", "Ჽ", "Ჾ", "Ჿ",
      "Ᏸ", "Ᏹ", "Ᏺ", "Ᏻ", "Ᏼ", "Ᏽ", "U+0412", "U+0414", "U+041E", "U+0421",
      "U+0422", "U+0422", "U+042A", "U+0462", "U+A64A", "Ᲊ", "U+A77D",
      "U+2C63", "Ᶎ", "U+1E00", "U+1E02", "U+1E04", "U+1E06", "U+1E08",
      "U+1E0A", "U+1E0C", "U+1E0E", "U+1E10", "U+1E12", "U+1E14", "U+1E16",
      "U+1E18", "U+1E1A", "U+1E1C", "U+1E1E", "U+1E20", "U+1E22", "U+1E24",
      "U+1E26", "U+1E28", "U+1E2A", "U+1E2C", "U+1E2E", "U+1E30", "U+1E32",
      "U+1E34", "U+1E36", "U+1E38", "U+1E3A", "U+1E3C", "U+1E3E", "U+1E40",
      "U+1E42", "U+1E44", "U+1E46", "U+1E48", "U+1E4A", "U+1E4C", "U+1E4E",
      "U+1E50", "U+1E52", "U+1E54", "U+1E56", "U+1E58", "U+1E5A", "U+1E5C",
      "U+1E5E", "U+1E60", "U+1E62", "U+1E64", "U+1E66", "U+1E68", "U+1E6A",
      "U+1E6C", "U+1E6E", "U+1E70", "U+1E72", "U+1E74", "U+1E76", "U+1E78",
      "U+1E7A", "U+1E7C", "U+1E7E", "Ẁ", "Ẃ", "Ẅ", "Ẇ", "Ẉ", "Ẋ", "Ẍ", "Ẏ",
      "Ẑ", "Ẓ", "Ẕ", "U+1E60", "Ạ", "Ả", "Ấ", "Ầ", "Ẩ", "Ẫ", "Ậ", "Ắ", "Ằ",
      "Ẳ", "Ẵ", "Ặ", "Ẹ", "Ẻ", "Ẽ", "Ế", "Ề", "Ể", "Ễ", "Ệ", "Ỉ", "Ị", "Ọ",
      "Ỏ", "Ố", "Ồ", "Ổ", "Ỗ", "Ộ", "Ớ", "Ờ", "Ở", "Ỡ", "Ợ", "Ụ", "Ủ", "Ứ",
      "Ừ", "Ử", "Ữ", "Ự", "Ỳ", "Ỵ", "Ỷ", "Ỹ", "Ỻ", "Ỽ", "Ỿ", "U+1F08",
      "U+1F09", "U+1F0A", "U+1F0B", "U+1F0C", "U+1F0D", "U+1F0E", "U+1F0F",
      "U+1F18", "U+1F19", "U+1F1A", "U+1F1B", "U+1F1C", "U+1F1D", "U+1F28",
      "U+1F29", "U+1F2A", "U+1F2B", "U+1F2C", "U+1F2D", "U+1F2E", "U+1F2F",
      "U+1F38", "U+1F39", "U+1F3A", "U+1F3B", "U+1F3C", "U+1F3D", "U+1F3E",
      "U+1F3F", "U+1F48", "U+1F49", "U+1F4A", "U+1F4B", "U+1F4C", "U+1F4D",
      "U+1F59", "U+1F5B", "U+1F5D", "U+1F5F", "U+1F68", "U+1F69", "U+1F6A",
      "U+1F6B", "U+1F6C", "U+1F6D", "U+1F6E", "U+1F6F", "Ὰ", "Ά", "Ὲ", "Έ",
      "Ὴ", "Ή", "Ὶ", "Ί", "Ὸ", "Ό", "Ὺ", "Ύ", "Ὼ", "Ώ", "Ᾰ", "Ᾱ", "Ι", "Ῐ",
      "Ῑ", "Ῠ", "Ῡ", "Ῥ", "U+2132", "U+2160", "U+2161", "U+2162", "U+2163",
      "U+2164", "U+2165", "U+2166", "U+2167", "U+2168", "U+2169", "U+216A",
      "U+216B", "U+216C", "U+216D", "U+216E", "U+216F", "Ↄ", "Ⓐ", "Ⓑ", "Ⓒ",
      "Ⓓ", "Ⓔ", "Ⓕ", "Ⓖ", "Ⓗ", "Ⓘ", "Ⓙ", "Ⓚ", "Ⓛ", "Ⓜ", "Ⓝ", "Ⓞ", "Ⓟ", "Ⓠ",
      "Ⓡ", "Ⓢ", "Ⓣ", "Ⓤ", "Ⓥ", "Ⓦ", "Ⓧ", "Ⓨ", "Ⓩ", "U+2C00", "U+2C01",
      "U+2C02", "U+2C03", "U+2C04", "U+2C05", "U+2C06", "U+2C07", "U+2C08",
      "U+2C09", "U+2C0A", "U+2C0B", "U+2C0C", "U+2C0D", "U+2C0E", "U+2C0F",
      "U+2C10", "U+2C11", "U+2C12", "U+2C13", "U+2C14", "U+2C15", "U+2C16",
      "U+2C17", "U+2C18", "U+2C19", "U+2C1A", "U+2C1B", "U+2C1C", "U+2C1D",
      "U+2C1E", "U+2C1F", "U+2C20", "U+2C21", "U+2C22", "U+2C23", "U+2C24",
      "U+2C25", "U+2C26", "U+2C27", "U+2C28", "U+2C29", "U+2C2A", "U+2C2B",
      "U+2C2C", "U+2C2D", "U+2C2E", "U+2C2F", "U+2C60", "U+023A", "U+023E",
      "U+2C67", "U+2C69", "U+2C6B", "U+2C72", "U+2C75", "Ⲁ", "Ⲃ", "Ⲅ", "Ⲇ",
      "Ⲉ", "Ⲋ", "Ⲍ", "Ⲏ", "Ⲑ", "Ⲓ", "Ⲕ", "Ⲗ", "Ⲙ", "Ⲛ", "Ⲝ", "Ⲟ", "Ⲡ", "Ⲣ",
      "Ⲥ", "Ⲧ", "Ⲩ", "Ⲫ", "Ⲭ", "Ⲯ", "Ⲱ", "Ⲳ", "Ⲵ", "Ⲷ", "Ⲹ", "Ⲻ", "Ⲽ", "Ⲿ",
      "Ⳁ", "Ⳃ", "Ⳅ", "Ⳇ", "Ⳉ", "Ⳋ", "Ⳍ", "Ⳏ", "Ⳑ", "Ⳓ", "Ⳕ", "Ⳗ", "Ⳙ", "Ⳛ",
      "Ⳝ", "Ⳟ", "Ⳡ", "Ⳣ", "Ⳬ", "Ⳮ", "Ⳳ", "Ⴀ", "Ⴁ", "Ⴂ", "Ⴃ", "Ⴄ", "Ⴅ", "Ⴆ",
      "Ⴇ", "Ⴈ", "Ⴉ", "Ⴊ", "Ⴋ", "Ⴌ", "Ⴍ", "Ⴎ", "Ⴏ", "Ⴐ", "Ⴑ", "Ⴒ", "Ⴓ", "Ⴔ",
      "Ⴕ", "Ⴖ", "Ⴗ", "Ⴘ", "Ⴙ", "Ⴚ", "Ⴛ", "Ⴜ", "Ⴝ", "Ⴞ", "Ⴟ", "Ⴠ", "Ⴡ", "Ⴢ",
      "Ⴣ", "Ⴤ", "Ⴥ", "Ⴧ", "Ⴭ", "U+A640", "U+A642", "U+A644", "U+A646",
      "U+A648", "U+A64A", "U+A64C", "U+A64E", "U+A650", "U+A652", "U+A654",
      "U+A656", "U+A658", "U+A65A", "U+A65C", "U+A65E", "U+A660", "U+A662",
      "U+A664", "U+A666", "U+A668", "U+A66A", "U+A66C", "Ꚁ", "Ꚃ", "Ꚅ", "Ꚇ",
      "Ꚉ", "Ꚋ", "Ꚍ", "Ꚏ", "Ꚑ", "Ꚓ", "Ꚕ", "Ꚗ", "Ꚙ", "Ꚛ", "U+A722", "U+A724",
      "U+A726", "U+A728", "U+A72A", "U+A72C", "U+A72E", "U+A732", "U+A734",
      "U+A736", "U+A738", "U+A73A", "U+A73C", "U+A73E", "U+A740", "U+A742",
      "U+A744", "U+A746", "U+A748", "U+A74A", "U+A74C", "U+A74E", "U+A750",
      "U+A752", "U+A754", "U+A756", "U+A758", "U+A75A", "U+A75C", "U+A75E",
      "U+A760", "U+A762", "U+A764", "U+A766", "U+A768", "U+A76A", "U+A76C",
      "U+A76E", "U+A779", "U+A77B", "U+A77E", "Ꞁ", "Ꞃ", "Ꞅ", "Ꞇ", "Ꞌ", "Ꞑ",
      "Ꞓ", "Ꞔ", "Ꞗ", "Ꞙ", "Ꞛ", "Ꞝ", "Ꞟ", "Ꞡ", "Ꞣ", "Ꞥ", "Ꞧ", "Ꞩ", "Ꞵ", "Ꞷ",
      "Ꞹ", "Ꞻ", "Ꞽ", "Ꞿ", "Ꟁ", "Ꟃ", "Ꟈ", "Ꟊ", "Ꟍ", "꟎", "Ꟑ", "꟒", "꟔", "Ꟗ",
      "Ꟙ", "Ꟛ", "Ꟶ", "Ꭓ", "Ꭰ", "Ꭱ", "Ꭲ", "Ꭳ", "Ꭴ", "Ꭵ", "Ꭶ", "Ꭷ", "Ꭸ", "Ꭹ",
      "Ꭺ", "Ꭻ", "Ꭼ", "Ꭽ", "Ꭾ", "Ꭿ", "Ꮀ", "Ꮁ", "Ꮂ", "Ꮃ", "Ꮄ", "Ꮅ", "Ꮆ", "Ꮇ",
      "Ꮈ", "Ꮉ", "Ꮊ", "Ꮋ", "Ꮌ", "Ꮍ", "Ꮎ", "Ꮏ", "Ꮐ", "Ꮑ", "Ꮒ", "Ꮓ", "Ꮔ", "Ꮕ",
      "Ꮖ", "Ꮗ", "Ꮘ", "Ꮙ", "Ꮚ", "Ꮛ", "Ꮜ", "Ꮝ", "Ꮞ", "Ꮟ", "Ꮠ", "Ꮡ", "Ꮢ", "Ꮣ",
      "Ꮤ", "Ꮥ", "Ꮦ", "Ꮧ", "Ꮨ", "Ꮩ", "Ꮪ", "Ꮫ", "Ꮬ", "Ꮭ", "Ꮮ", "Ꮯ", "Ꮰ", "Ꮱ",
      "Ꮲ", "Ꮳ", "Ꮴ", "Ꮵ", "Ꮶ", "Ꮷ", "Ꮸ", "Ꮹ", "Ꮺ", "Ꮻ", "Ꮼ", "Ꮽ", "Ꮾ", "Ꮿ",
      "U+FF21", "U+FF22", "U+FF23", "U+FF24", "U+FF25", "U+FF26", "U+FF27",
      "U+FF28", "U+FF29", "U+FF2A", "U+FF2B", "U+FF2C", "U+FF2D", "U+FF2E",
      "U+FF2F", "U+FF30", "U+FF31", "U+FF32", "U+FF33", "U+FF34", "U+FF35",
      "U+FF36", "U+FF37", "U+FF38", "U+FF39", "U+FF3A">>

Expanding ==
    <<"ß", "U+0149", "ǰ", "ΐ", "ΰ", "և", "ẖ", "ẗ", "ẘ", "ẙ", "ẚ", "U+1F50",
      "U+1F52", "U+1F54", "U+1F56", "ᾀ", "ᾁ", "ᾂ", "ᾃ", "ᾄ", "ᾅ", "ᾆ", "ᾇ",
      "ᾈ", "ᾉ", "ᾊ", "ᾋ", "ᾌ", "ᾍ", "ᾎ", "ᾏ", "ᾐ", "ᾑ", "ᾒ", "ᾓ", "ᾔ", "ᾕ",
      "ᾖ", "ᾗ", "ᾘ", "ᾙ", "ᾚ", "ᾛ", "ᾜ", "ᾝ", "ᾞ", "ᾟ", "ᾠ", "ᾡ", "ᾢ", "ᾣ",
      "ᾤ", "ᾥ", "ᾦ", "ᾧ", "ᾨ", "ᾩ", "ᾪ", "ᾫ", "ᾬ", "ᾭ", "ᾮ", "ᾯ", "ᾲ", "ᾳ",
      "ᾴ", "ᾶ", "ᾷ", "ᾼ", "ῂ", "ῃ", "ῄ", "ῆ", "ῇ", "ῌ", "ῒ", "ΐ", "ῖ", "ῗ",
      "ῢ", "ΰ", "ῤ", "ῦ", "ῧ", "ῲ", "ῳ", "ῴ", "ῶ", "ῷ", "ῼ", "U+FB00",
      "U+FB01", "U+FB02", "U+FB03", "U+FB04", "U+FB05", "U+FB06", "U+FB13",
      "U+FB14", "U+FB15", "U+FB16", "U+FB17">>

Expanded ==
    <<"S", "S", "", "ʼ", "N", "", "J", "U+030C", "", "Ι", "U+0308", "U+0301",
      "Υ", "U+0308", "U+0301", "U+0535", "U+0552", "", "H", "U+0331", "", "T",
      "U+0308", "", "W", "U+030A", "", "Y", "U+030A", "", "A", "ʾ", "", "Υ",
      "U+0313", "", "Υ", "U+0313", "U+0300", "Υ", "U+0313", "U+0301", "Υ",
      "U+0313", "U+0342", "U+1F08", "Ι", "", "U+1F09", "Ι", "", "U+1F0A", "Ι",
      "", "U+1F0B", "Ι", "", "U+1F0C", "Ι", "", "U+1F0D", "Ι", "", "U+1F0E",
      "Ι", "", "U+1F0F", "Ι", "", "U+1F08", "Ι", "", "U+1F09", "Ι", "",
      "U+1F0A", "Ι", "", "U+1F0B", "Ι", "", "U+1F0C", "Ι", "", "U+1F0D", "Ι",
      "", "U+1F0E", "Ι", "", "U+1F0F", "Ι", "", "U+1F28", "Ι", "", "U+1F29",
      "Ι", "", "U+1F2A", "Ι", "", "U+1F2B", "Ι", "", "U+1F2C", "Ι", "",
      "U+1F2D", "Ι", "", "U+1F2E", "Ι", "", "U+1F2F", "Ι", "", "U+1F28", "Ι",
      "", "U+1F29", "Ι", "", "U+1F2A", "Ι", "", "U+1F2B", "Ι", "", "U+1F2C",
      "Ι", "", "U+1F2D", "Ι", "", "U+1F2E", "Ι", "", "U+1F2F", "Ι", "",
      "U+1F68", "Ι", "", "U+1F69", "Ι", "", "U+1F6A", "Ι", "", "U+1F6B", "Ι",
      "", "U+1F6C", "Ι", "", "U+1F6D", "Ι", "", "U+1F6E", "Ι", "", "U+1F6F",
      "Ι", "", "U+1F68", "Ι", "", "U+1F69", "Ι", "", "U+1F6A", "Ι", "",
      "U+1F6B", "Ι", "", "U+1F6C", "Ι", "", "U+1F6D", "Ι", "", "U+1F6E", "Ι",
      "", "U+1F6F", "Ι", "", "Ὰ", "Ι", "", "Α", "Ι", "", "Ά", "Ι", "", "Α",
      "U+0342", "", "Α", "U+0342", "Ι", "Α", "Ι", "", "Ὴ", "Ι", "", "Η", "Ι",
      "", "Ή", "Ι", "", "Η", "U+0342", "", "Η", "U+0342", "Ι", "Η", "Ι", "",
      "Ι", "U+0308", "U+0300", "Ι", "U+0308", "U+0301", "Ι", "U+0342", "",
      "Ι", "U+0308", "U+0342", "Υ", "U+0308", "U+0300", "Υ", "U+0308",
      "U+0301", "Ρ", "U+0313", "", "Υ", "U+0342", "", "Υ", "U+0308", "U+0342",
      "Ὼ", "Ι", "", "Ω", "Ι", "", "Ώ", "Ι", "", "Ω", "U+0342", "", "Ω",
      "U+0342", "Ι", "Ω", "Ι", "", "F", "F", "", "F", "I", "", "F", "L", "",
      "F", "F", "I", "F", "F", "L", "S", "T", "", "S", "T", "", "U+0544",
      "U+0546", "", "U+0544", "U+0535", "", "U+0544", "U+053B", "", "U+054E",
      "U+0546", "", "U+0544", "U+053D", "">>

PairLower ==
    <<"U+D801", "U+DC28", "U+D801", "U+DC29", "U+D801", "U+DC2A", "U+D801",
      "U+DC2B", "U+D801", "U+DC2C", "U+D801", "U+DC2D", "U+D801", "U+DC2E",
      "U+D801", "U+DC2F", "U+D801", "U+DC30", "U+D801", "U+DC31", "U+D801",
      "U+DC32", "U+D801", "U+DC33", "U+D801", "U+DC34", "U+D801", "U+DC35",
      "U+D801", "U+DC36", "U+D801", "U+DC37", "U+D801", "U+DC38", "U+D801",
      "U+DC39", "U+D801", "U+DC3A", "U+D801", "U+DC3B", "U+D801", "U+DC3C",
      "U+D801", "U+DC3D", "U+D801", "U+DC3E", "U+D801", "U+DC3F", "U+D801",
      "U+DC40", "U+D801", "U+DC41", "U+D801", "U+DC42", "U+D801", "U+DC43",
      "U+D801", "U+DC44", "U+D801", "U+DC45", "U+D801", "U+DC46", "U+D801",
      "U+DC47", "U+D801", "U+DC48", "U+D801", "U+DC49", "U+D801", "U+DC4A",
      "U+D801", "U+DC4B", "U+D801", "U+DC4C", "U+D801", "U+DC4D", "U+D801",
      "U+DC4E", "U+D801", "U+DC4F", "U+D801", "U+DCD8", "U+D801", "U+DCD9",
      "U+D801", "U+DCDA", "U+D801", "U+DCDB", "U+D801", "U+DCDC", "U+D801",
      "U+DCDD", "U+D801", "U+DCDE", "U+D801", "U+DCDF", "U+D801", "U+DCE0",
      "U+D801", "U+DCE1", "U+D801", "U+DCE2", "U+D801", "U+DCE3", "U+D801",
      "U+DCE4", "U+D801", "U+DCE5", "U+D801", "U+DCE6", "U+D801", "U+DCE7",
      "U+D801", "U+DCE8", "U+D801", "U+DCE9", "U+D801", "U+DCEA", "U+D801",
      "U+DCEB", "U+D801", "U+DCEC", "U+D801", "U+DCED", "U+D801", "U+DCEE",
      "U+D801", "U+DCEF", "U+D801", "U+DCF0", "U+D801", "U+DCF1", "U+D801",
      "U+DCF2", "U+D801", "U+DCF3", "U+D801", "U+DCF4", "U+D801", "U+DCF5",
      "U+D801", "U+DCF6", "U+D801", "U+DCF7", "U+D801", "U+DCF8", "U+D801",
      "U+DCF9", "U+D801", "U+DCFA", "U+D801", "U+DCFB", "U+D801", "U+DD97",
      "U+D801", "U+DD98", "U+D801", "U+DD99", "U+D801", "U+DD9A", "U+D801",
      "U+DD9B", "U+D801", "U+DD9C", "U+D801", "U+DD9D", "U+D801", "U+DD9E",
      "U+D801", "U+DD9F", "U+D801", "U+DDA0", "U+D801", "U+DDA1", "U+D801",
      "U+DDA3", "U+D801", "U+DDA4", "U+D801", "U+DDA5", "U+D801", "U+DDA6",
      "U+D801", "U+DDA7", "U+D801", "U+DDA8", "U+D801", "U+DDA9", "U+D801",
      "U+DDAA", "U+D801", "U+DDAB", "U+D801", "U+DDAC", "U+D801", "U+DDAD",
      "U+D801", "U+DDAE", "U+D801", "U+DDAF", "U+D801", "U+DDB0", "U+D801",
      "U+DDB1", "U+D801", "U+DDB3", "U+D801", "U+DDB4", "U+D801", "U+DDB5",
      "U+D801", "U+DDB6", "U+D801", "U+DDB7", "U+D801", "U+DDB8", "U+D801",
      "U+DDB9", "U+D801", "U+DDBB", "U+D801", "U+DDBC", "U+D803", "U+DCC0",
      "U+D803", "U+DCC1", "U+D803", "U+DCC2", "U+D803", "U+DCC3", "U+D803",
      "U+DCC4", "U+D803", "U+DCC5", "U+D803", "U+DCC6", "U+D803", "U+DCC7",
      "U+D803", "U+DCC8", "U+D803", "U+DCC9", "U+D803", "U+DCCA", "U+D803",
      "U+DCCB", "U+D803", "U+DCCC", "U+D803", "U+DCCD", "U+D803", "U+DCCE",
      "U+D803", "U+DCCF", "U+D803", "U+DCD0", "U+D803", "U+DCD1", "U+D803",
      "U+DCD2", "U+D803", "U+DCD3", "U+D803", "U+DCD4", "U+D803", "U+DCD5",
      "U+D803", "U+DCD6", "U+D803", "U+DCD7", "U+D803", "U+DCD8", "U+D803",
      "U+DCD9", "U+D803", "U+DCDA", "U+D803", "U+DCDB", "U+D803", "U+DCDC",
      "U+D803", "U+DCDD", "U+D803", "U+DCDE", "U+D803", "U+DCDF", "U+D803",
      "U+DCE0", "U+D803", "U+DCE1", "U+D803", "U+DCE2", "U+D803", "U+DCE3",
      "U+D803", "U+DCE4", "U+D803", "U+DCE5", "U+D803", "U+DCE6", "U+D803",
      "U+DCE7", "U+D803", "U+DCE8", "U+D803", "U+DCE9", "U+D803", "U+DCEA",
      "U+D803", "U+DCEB", "U+D803", "U+DCEC", "U+D803", "U+DCED", "U+D803",
      "U+DCEE", "U+D803", "U+DCEF", "U+D803", "U+DCF0", "U+D803", "U+DCF1",
      "U+D803", "U+DCF2", "U+D803", "U+DD70", "U+D803", "U+DD71", "U+D803",
      "U+DD72", "U+D803", "U+DD73", "U+D803", "U+DD74", "U+D803", "U+DD75",
      "U+D803", "U+DD76", "U+D803", "U+DD77", "U+D803", "U+DD78", "U+D803",
      "U+DD79", "U+D803", "U+DD7A", "U+D803", "U+DD7B", "U+D803", "U+DD7C",
      "U+D803", "U+DD7D", "U+D803", "U+DD7E", "U+D803", "U+DD7F", "U+D803",
      "U+DD80", "U+D803", "U+DD81", "U+D803", "U+DD82", "U+D803", "U+DD83",
      "U+D803", "U+DD84", "U+D803", "U+DD85", "U+D806", "U+DCC0", "U+D806",
      "U+DCC1", "U+D806", "U+DCC2", "U+D806", "U+DCC3", "U+D806", "U+DCC4",
      "U+D806", "U+DCC5", "U+D806", "U+DCC6", "U+D806", "U+DCC7", "U+D806",
      "U+DCC8", "U+D806", "U+DCC9", "U+D806", "U+DCCA", "U+D806", "U+DCCB",
      "U+D806", "U+DCCC", "U+D806", "U+DCCD", "U+D806", "U+DCCE", "U+D806",
      "U+DCCF", "U+D806", "U+DCD0", "U+D806", "U+DCD1", "U+D806", "U+DCD2",
      "U+D806", "U+DCD3", "U+D806", "U+DCD4", "U+D806", "U+DCD5", "U+D806",
      "U+DCD6", "U+D806", "U+DCD7", "U+D806", "U+DCD8", "U+D806", "U+DCD9",
      "U+D806", "U+DCDA", "U+D806", "U+DCDB", "U+D806", "U+DCDC", "U+D806",
      "U+DCDD", "U+D806", "U+DCDE", "U+D806", "U+DCDF", "U+D81B", "U+DE60",
      "U+D81B", "U+DE61", "U+D81B", "U+DE62", "U+D81B", "U+DE63", "U+D81B",
      "U+DE64", "U+D81B", "U+DE65", "U+D81B", "U+DE66", "U+D81B", "U+DE67",
      "U+D81B", "U+DE68", "U+D81B", "U+DE69", "U+D81B", "U+DE6A", "U+D81B",
      "U+DE6B", "U+D81B", "U+DE6C", "U+D81B", "U+DE6D", "U+D81B", "U+DE6E",
      "U+D81B", "U+DE6F", "U+D81B", "U+DE70", "U+D81B", "U+DE71", "U+D81B",
      "U+DE72", "U+D81B", "U+DE73", "U+D81B", "U+DE74", "U+D81B", "U+DE75",
      "U+D81B", "U+DE76", "U+D81B", "U+DE77", "U+D81B", "U+DE78", "U+D81B",
      "U+DE79", "U+D81B", "U+DE7A", "U+D81B", "U+DE7B", "U+D81B", "U+DE7C",
      "U+D81B", "U+DE7D", "U+D81B", "U+DE7E", "U+D81B", "U+DE7F", "U+D81B",
      "U+DEBB", "U+D81B", "U+DEBC", "U+D81B", "U+DEBD", "U+D81B", "U+DEBE",
      "U+D81B", "U+DEBF", "U+D81B", "U+DEC0", "U+D81B", "U+DEC1", "U+D81B",
      "U+DEC2", "U+D81B", "U+DEC3", "U+D81B", "U+DEC4", "U+D81B", "U+DEC5",
      "U+D81B", "U+DEC6", "U+D81B", "U+DEC7", "U+D81B", "U+DEC8", "U+D81B",
      "U+DEC9", "U+D81B", "U+DECA", "U+D81B", "U+DECB", "U+D81B", "U+DECC",
      "U+D81B", "U+DECD", "U+D81B", "U+DECE", "U+D81B", "U+DECF", "U+D81B",
      "U+DED0", "U+D81B", "U+DED1", "U+D81B", "U+DED2", "U+D81B", "U+DED3",
      "U+D83A", "U+DD22", "U+D83A", "U+DD23", "U+D83A", "U+DD24", "U+D83A",
      "U+DD25", "U+D83A", "U+DD26", "U+D83A", "U+DD27", "U+D83A", "U+DD28",
      "U+D83A", "U+DD29", "U+D83A", "U+DD2A", "U+D83A", "U+DD2B", "U+D83A",
      "U+DD2C", "U+D83A", "U+DD2D", "U+D83A", "U+DD2E", "U+D83A", "U+DD2F",
      "U+D83A", "U+DD30", "U+D83A", "U+DD31", "U+D83A", "U+DD32", "U+D83A",
      "U+DD33", "U+D83A", "U+DD34", "U+D83A", "U+DD35", "U+D83A", "U+DD36",
      "U+D83A", "U+DD37", "U+D83A", "U+DD38", "U+D83A", "U+DD39", "U+D83A",
      "U+DD3A", "U+D83A", "U+DD3B", "U+D83A", "U+DD3C", "U+D83A", "U+DD3D",
      "U+D83A", "U+DD3E", "U+D83A", "U+DD3F", "U+D83A", "U+DD40", "U+D83A",
      "U+DD41", "U+D83A", "U+DD42", "U+D83A", "U+DD43">>

PairUpper ==
    <<"U+D801", "U+DC00", "U+D801", "U+DC01", "U+D801", "U+DC02", "U+D801",
      "U+DC03", "U+D801", "U+DC04", "U+D801", "U+DC05", "U+D801", "U+DC06",
      "U+D801", "U+DC07", "U+D801", "U+DC08", "U+D801", "U+DC09", "U+D801",
      "U+DC0A", "U+D801", "U+DC0B", "U+D801", "U+DC0C", "U+D801", "U+DC0D",
      "U+D801", "U+DC0E", "U+D801", "U+DC0F", "U+D801", "U+DC10", "U+D801",
      "U+DC11", "U+D801", "U+DC12", "U+D801", "U+DC13", "U+D801", "U+DC14",
      "U+D801", "U+DC15", "U+D801", "U+DC16", "U+D801", "U+DC17", "U+D801",
      "U+DC18", "U+D801", "U+DC19", "U+D801", "U+DC1A", "U+D801", "U+DC1B",
      "U+D801", "U+DC1C", "U+D801", "U+DC1D", "U+D801", "U+DC1E", "U+D801",
      "U+DC1F", "U+D801", "U+DC20", "U+D801", "U+DC21", "U+D801", "U+DC22",
      "U+D801", "U+DC23", "U+D801", "U+DC24", "U+D801", "U+DC25", "U+D801",
      "U+DC26", "U+D801", "U+DC27", "U+D801", "U+DCB0", "U+D801", "U+DCB1",
      "U+D801", "U+DCB2", "U+D801", "U+DCB3", "U+D801", "U+DCB4", "U+D801",
      "U+DCB5", "U+D801", "U+DCB6", "U+D801", "U+DCB7", "U+D801", "U+DCB8",
      "U+D801", "U+DCB9", "U+D801", "U+DCBA", "U+D801", "U+DCBB", "U+D801",
      "U+DCBC", "U+D801", "U+DCBD", "U+D801", "U+DCBE", "U+D801", "U+DCBF",
      "U+D801", "U+DCC0", "U+D801", "U+DCC1", "U+D801", "U+DCC2", "U+D801",
      "U+DCC3", "U+D801", "U+DCC4", "U+D801", "U+DCC5", "U+D801", "U+DCC6",
      "U+D801", "U+DCC7", "U+D801", "U+DCC8", "U+D801", "U+DCC9", "U+D801",
      "U+DCCA", "U+D801", "U+DCCB", "U+D801", "U+DCCC", "U+D801", "U+DCCD",
      "U+D801", "U+DCCE", "U+D801", "U+DCCF", "U+D801", "U+DCD0", "U+D801",
      "U+DCD1", "U+D801", "U+DCD2", "U+D801", "U+DCD3", "U+D801", "U+DD70",
      "U+D801", "U+DD71", "U+D801", "U+DD72", "U+D801", "U+DD73", "U+D801",
      "U+DD74", "U+D801", "U+DD75", "U+D801", "U+DD76", "U+D801", "U+DD77",
      "U+D801", "U+DD78", "U+D801", "U+DD79", "U+D801", "U+DD7A", "U+D801",
      "U+DD7C", "U+D801", "U+DD7D", "U+D801", "U+DD7E", "U+D801", "U+DD7F",
      "U+D801", "U+DD80", "U+D801", "U+DD81", "U+D801", "U+DD82", "U+D801",
      "U+DD83", "U+D801", "U+DD84", "U+D801", "U+DD85", "U+D801", "U+DD86",
      "U+D801", "U+DD87", "U+D801", "U+DD88", "U+D801", "U+DD89", "U+D801",
      "U+DD8A", "U+D801", "U+DD8C", "U+D801", "U+DD8D", "U+D801", "U+DD8E",
      "U+D801", "U+DD8F", "U+D801", "U+DD90", "U+D801", "U+DD91", "U+D801",
      "U+DD92", "U+D801", "U+DD94", "U+D801", "U+DD95", "U+D803", "U+DC80",
      "U+D803", "U+DC81", "U+D803", "U+DC82", "U+D803", "U+DC83", "U+D803",
      "U+DC84", "U+D803", "U+DC85", "U+D803", "U+DC86", "U+D803", "U+DC87",
      "U+D803", "U+DC88", "U+D803", "U+DC89", "U+D803", "U+DC8A", "U+D803",
      "U+DC8B", "U+D803", "U+DC8C", "U+D803", "U+DC8D", "U+D803", "U+DC8E",
      "U+D803", "U+DC8F", "U+D803", "U+DC90", "U+D803", "U+DC91", "U+D803",
      "U+DC92", "U+D803", "U+DC93", "U+D803", "U+DC94", "U+D803", "U+DC95",
      "U+D803", "U+DC96", "U+D803", "U+DC97", "U+D803", "U+DC98", "U+D803",
      "U+DC99", "U+D803", "U+DC9A", "U+D803", "U+DC9B", "U+D803", "U+DC9C",
      "U+D803", "U+DC9D", "U+D803", "U+DC9E", "U+D803", "U+DC9F", "U+D803",
      "U+DCA0", "U+D803", "U+DCA1", "U+D803", "U+DCA2", "U+D803", "U+DCA3",
      "U+D803", "U+DCA4", "U+D803", "U+DCA5", "U+D803", "U+DCA6", "U+D803",
      "U+DCA7", "U+D803", "U+DCA8", "U+D803", "U+DCA9", "U+D803", "U+DCAA",
      "U+D803", "U+DCAB", "U+D803", "U+DCAC", "U+D803", "U+DCAD", "U+D803",
      "U+DCAE", "U+D803", "U+DCAF", "U+D803", "U+DCB0", "U+D803", "U+DCB1",
      "U+D803", "U+DCB2", "U+D803", "U+DD50", "U+D803", "U+DD51", "U+D803",
      "U+DD52", "U+D803", "U+DD53", "U+D803", "U+DD54", "U+D803", "U+DD55",
      "U+D803", "U+DD56", "U+D803", "U+DD57", "U+D803", "U+DD58", "U+D803",
      "U+DD59", "U+D803", "U+DD5A", "U+D803", "U+DD5B", "U+D803", "U+DD5C",
      "U+D803", "U+DD5D", "U+D803", "U+DD5E", "U+D803", "U+DD5F", "U+D803",
      "U+DD60", "U+D803", "U+DD61", "U+D803", "U+DD62", "U+D803", "U+DD63",
      "U+D803", "U+DD64", "U+D803", "U+DD65", "U+D806", "U+DCA0", "U+D806",
      "U+DCA1", "U+D806", "U+DCA2", "U+D806", "U+DCA3", "U+D806", "U+DCA4",
      "U+D806", "U+DCA5", "U+D806", "U+DCA6", "U+D806", "U+DCA7", "U+D806",
      "U+DCA8", "U+D806", "U+DCA9", "U+D806", "U+DCAA", "U+D806", "U+DCAB",
      "U+D806", "U+DCAC", "U+D806", "U+DCAD", "U+D806", "U+DCAE", "U+D806",
      "U+DCAF", "U+D806", "U+DCB0", "U+D806", "U+DCB1", "U+D806", "U+DCB2",
      "U+D806", "U+DCB3", "U+D806", "U+DCB4", "U+D806", "U+DCB5", "U+D806",
      "U+DCB6", "U+D806", "U+DCB7", "U+D806", "U+DCB8", "U+D806", "U+DCB9",
      "U+D806", "U+DCBA", "U+D806", "U+DCBB", "U+D806", "U+DCBC", "U+D806",
      "U+DCBD", "U+D806", "U+DCBE", "U+D806", "U+DCBF", "U+D81B", "U+DE40",
      "U+D81B", "U+DE41", "U+D81B", "U+DE42", "U+D81B", "U+DE43", "U+D81B",
      "U+DE44", "U+D81B", "U+DE45", "U+D81B", "U+DE46", "U+D81B", "U+DE47",
      "U+D81B", "U+DE48", "U+D81B", "U+DE49", "U+D81B", "U+DE4A", "U+D81B",
      "U+DE4B", "U+D81B", "U+DE4C", "U+D81B", "U+DE4D", "U+D81B", "U+DE4E",
      "U+D81B", "U+DE4F", "U+D81B", "U+DE50", "U+D81B", "U+DE51", "U+D81B",
      "U+DE52", "U+D81B", "U+DE53", "U+D81B", "U+DE54", "U+D81B", "U+DE55",
      "U+D81B", "U+DE56", "U+D81B", "U+DE57", "U+D81B", "U+DE58", "U+D81B",
      "U+DE59", "U+D81B", "U+DE5A", "U+D81B", "U+DE5B", "U+D81B", "U+DE5C",
      "U+D81B", "U+DE5D", "U+D81B", "U+DE5E", "U+D81B", "U+DE5F", "U+D81B",
      "U+DEA0", "U+D81B", "U+DEA1", "U+D81B", "U+DEA2", "U+D81B", "U+DEA3",
      "U+D81B", "U+DEA4", "U+D81B", "U+DEA5", "U+D81B", "U+DEA6", "U+D81B",
      "U+DEA7", "U+D81B", "U+DEA8", "U+D81B", "U+DEA9", "U+D81B", "U+DEAA",
      "U+D81B", "U+DEAB", "U+D81B", "U+DEAC", "U+D81B", "U+DEAD", "U+D81B",
      "U+DEAE", "U+D81B", "U+DEAF", "U+D81B", "U+DEB0", "U+D81B", "U+DEB1",
      "U+D81B", "U+DEB2", "U+D81B", "U+DEB3", "U+D81B", "U+DEB4", "U+D81B",
      "U+DEB5", "U+D81B", "U+DEB6", "U+D81B", "U+DEB7", "U+D81B", "U+DEB8",
      "U+D83A", "U+DD00", "U+D83A", "U+DD01", "U+D83A", "U+DD02", "U+D83A",
      "U+DD03", "U+D83A", "U+DD04", "U+D83A", "U+DD05", "U+D83A", "U+DD06",
      "U+D83A", "U+DD07", "U+D83A", "U+DD08", "U+D83A", "U+DD09", "U+D83A",
      "U+DD0A", "U+D83A", "U+DD0B", "U+D83A", "U+DD0C", "U+D83A", "U+DD0D",
      "U+D83A", "U+DD0E", "U+D83A", "U+DD0F", "U+D83A", "U+DD10", "U+D83A",
      "U+DD11", "U+D83A", "U+DD12", "U+D83A", "U+DD13", "U+D83A", "U+DD14",
      "U+D83A", "U+DD15", "U+D83A", "U+DD16", "U+D83A", "U+DD17", "U+D83A",
      "U+DD18", "U+D83A", "U+DD19", "U+D83A", "U+DD1A", "U+D83A", "U+DD1B",
      "U+D83A", "U+DD1C", "U+D83A", "U+DD1D", "U+D83A", "U+DD1E", "U+D83A",
      "U+DD1F", "U+D83A", "U+DD20", "U+D83A", "U+DD21">>

\* every string that toUpperCase changes as a whole, with what it becomes
CaseTable ==
    [n \in 1..Len(Lower) |-> << <<Lower[n]>>, <<Upper[n]>> >>]
    \o [n \in 1..Len(Expanding) |->
          << <<Expanding[n]>>,
             SelectSeq(SubSeq(Expanded, 3 * n - 2, 3 * n),
                       LAMBDA c : c # "") >>]
    \o [n \in 1..(Len(PairLower) \div 2) |->
          << SubSeq(PairLower, 2 * n - 1, 2 * n),
             SubSeq(PairUpper, 2 * n - 1, 2 * n) >>]

capitalOf ==
    LET capitals(table) ==
            [s \in {table[n][1] : n \in 1..Len(table)} |->
                table[CHOOSE n \in 1..Len(table) : table[n][1] = s][2]]
    IN capitals(CaseTable)

\* String.prototype.toUpperCase on one character: the result is a string,
\* since the capital of some characters is two or three characters
toUpperCaseChar(c) ==
    IF <<c>> \in DOMAIN capitalOf THEN capitalOf[<<c>>] ELSE <<c>>

\* toUpperCase maps code points: two surrogates that make one cased code
\* point are mapped together
RECURSIVE toUpperCase(_)
toUpperCase(s) ==
    IF s = <<>> THEN <<>>
    ELSE IF Len(s) >= 2 /\ SubSeq(s, 1, 2) \in DOMAIN capitalOf
    THEN capitalOf[SubSeq(s, 1, 2)] \o toUpperCase(SubSeq(s, 3, Len(s)))
    ELSE toUpperCaseChar(Head(s)) \o toUpperCase(Tail(s))

\* the WhiteSpace and LineTerminator characters that trim removes: U+0009
\* (tab), U+000A (line feed), U+000B (vertical tab), U+000C (form feed),
\* U+000D (carriage return), U+0020 (space), U+00A0 (no-break space),
\* U+1680, U+FEFF, and by their names U+2000 to U+200A, U+2028, U+2029,
\* U+202F, U+205F and U+3000
WhiteSpace ==
    {"\t", "\n", "", "\f", "\r", " ", " ", " ", "﻿",
     "U+2000", "U+2001", "U+2002", "U+2003", "U+2004", "U+2005", "U+2006",
     "U+2007", "U+2008", "U+2009", "U+200A", "U+2028", "U+2029", "U+202F",
     "U+205F", "U+3000"}

IsSpace(c) == c \in WhiteSpace

RECURSIVE trimStart(_)
trimStart(s) ==
    IF s # <<>> /\ IsSpace(Head(s)) THEN trimStart(Tail(s)) ELSE s

RECURSIVE trimEnd(_)
trimEnd(s) ==
    IF s # <<>> /\ IsSpace(s[Len(s)])
    THEN trimEnd(SubSeq(s, 1, Len(s) - 1))
    ELSE s

trim(s) == trimEnd(trimStart(s))

\* a comparison of the whole string instead of its beginning
startsWithWholeString(s, p) == s = p

startsWith(s, p) ==
    /\ Len(p) <= Len(s)
    /\ SubSeq(s, 1, Len(p)) = p

includes(s, sub) ==
    \E k \in 0..(Len(s) - Len(sub)) : SubSeq(s, k + 1, k + Len(sub)) = sub

\* [...new Set(list)]: the distinct elements, in order of first occurrence
RECURSIVE uniq(_)
uniq(list) ==
    IF list = <<>> THEN <<>>
    ELSE LET front == uniq(SubSeq(list, 1, Len(list) - 1))
             last == list[Len(list)]
         IN IF \E n \in 1..Len(front) : front[n] = last
            THEN front
            ELSE Append(front, last)

normalizePatterns(list) ==
    uniq([n \in 1..Len(list) |-> toUpperCase(trim(list[n]))])

some(patterns, upperCasePath) ==
    \E n \in 1..Len(patterns) : includes(upperCasePath, patterns[n])

matches(patterns, file) == some(patterns, toUpperCase(file.filepath))

FilesPrefix == <<"f", "i", "l", "e", "s", "/">>
TrashPrefix ==
    <<"f", "i", "l", "e", "s", "_", "t", "r", "a", "s", "h", "b", "i", "n">>

\* index of the first "/" of s (s contains one)
firstSlash(s) == CHOOSE n \in 1..Len(s) :
    /\ s[n] = "/"
    /\ \A m \in 1..(n - 1) : s[m] # "/"

cleanupPath(file) ==
    IF startsWith(file, FilesPrefix)
    THEN SubSeq(file, firstSlash(file) + 1, Len(file))
    ELSE file

\* s.split("/")
RECURSIVE split(_)
split(s) ==
    IF \A n \in 1..Len(s) : s[n] # "/" THEN <<s>>
    ELSE <<SubSeq(s, 1, firstSlash(s) - 1)>>
         \o split(SubSeq(s, firstSlash(s) + 1, Len(s)))

(***************************************************************************)
(* Maps                                                                    *)
(***************************************************************************)
EmptyMap == [x \in {} |-> FALSE]
MapSet(m, k, v) == [x \in DOMAIN m \cup {k} |-> IF x = k THEN v ELSE m[x]]
MapDelete(m, k) == [x \in DOMAIN m \ {k} |-> m[x]]
MapHas(m, k) == k \in DOMAIN m

(***************************************************************************)
(* Values and objects of JavaScript, as far as printFileSummary and main   *)
(* can reach them by reading and assigning properties (lines 137, 213-215, *)
(* 319, 402-409, 417-433, 438-450).                                        *)
(*                                                                         *)
(* A value is undefined, null, a number, a string, or a reference to an    *)
(* object of the heap. The heap is a sequence whose n-th element is the    *)
(* object of reference n: its class, its prototype (0 for null), its own   *)
(* properties, and its enumerable own keys in the order of their creation. *)
(* A property is a data property (value, writable, enumerable) or one of   *)
(* three accessors: the getter count of a directory, __proto__ of          *)
(* Object.prototype, and caller and arguments of Function.prototype, whose *)
(* getter and setter throw. The heap starts as Realm: the built-in objects *)
(* that a property read can reach from an object literal, a string or a    *)
(* number, with the properties they have in Node.js 20.                    *)
(***************************************************************************)
Undefined == [t |-> "undefined"]
Null == [t |-> "null"]
NumberValue(n) == [t |-> "number", n |-> n]
\* a number that is not a small integer, kept as the text String() gives
NumberConstant(text) == [t |-> "number", text |-> text]
StringValue(s) == [t |-> "string", s |-> s]
Reference(id) == [t |-> "object", id |-> id]
\* the completion of an operation that throws
Throw(error) == [t |-> "throw", error |-> error]

\* ToBoolean, as tested by || at lines 403, 409 and 418 and by files[..] ||
truthy(v) ==
    IF v.t \in {"undefined", "null"} THEN FALSE
    ELSE IF v.t = "number"
    THEN IF "n" \in DOMAIN v THEN v.n # 0 ELSE v.text # chars("NaN")
    ELSE IF v.t = "string" THEN v.s # <<>>
    ELSE TRUE

\* a property made by an assignment or by an object literal
Data(v) == [a |-> "data", v |-> v, w |-> TRUE, e |-> TRUE]
\* a built-in method: writable, not enumerable
Method(v) == [a |-> "data", v |-> v, w |-> TRUE, e |-> FALSE]
\* length and name of a function, prototype of a constructor, a constant
ReadOnly(v) == [a |-> "data", v |-> v, w |-> FALSE, e |-> FALSE]
Accessor(kind, enumerable) == [a |-> kind, e |-> enumerable]

CountKey == chars("count")
NameKey == chars("name")
FilesKey == chars("files")
BaseName == chars("base")
LengthKey == chars("length")
PrototypeKey == chars("prototype")
ConstructorKey == chars("constructor")
ProtoKey == chars("__proto__")

Digits == chars("0123456789")
digitOf(c) == CHOOSE n \in 0..9 : Digits[n + 1] = c
MaxArrayIndex == chars("4294967294")

\* a < b for two numbers written without a leading zero
numericLess(a, b) ==
    \/ Len(a) < Len(b)
    \/ /\ Len(a) = Len(b)
       /\ \E k \in 1..Len(a) :
             /\ \A j \in 1..(k - 1) : a[j] = b[j]
             /\ digitOf(a[k]) < digitOf(b[k])

\* a key that is the canonical form of an integer from 0 to 2^32 - 2
isArrayIndex(key) ==
    /\ key # <<>>
    /\ \A n \in 1..Len(key) : \E m \in 1..10 : Digits[m] = key[n]
    /\ Len(key) = 1 \/ key[1] # "0"
    /\ ~numericLess(MaxArrayIndex, key)

RECURSIVE ascending(_)
ascending(keys) ==
    IF keys = {} THEN <<>>
    ELSE LET least == CHOOSE a \in keys :
                         \A b \in keys \ {a} : numericLess(a, b)
         IN <<least>> \o ascending(keys \ {least})

\* the number that a string of digits writes
RECURSIVE numberOf(_)
numberOf(key) ==
    IF key = <<>> THEN 0
    ELSE 10 * numberOf(SubSeq(key, 1, Len(key) - 1)) + digitOf(key[Len(key)])

\* String(n) for an integer, which is also the property key of n
RECURSIVE keyOf(_)
keyOf(n) ==
    IF n < 0 THEN <<"-">> \o keyOf(0 - n)
    ELSE IF n < 10 THEN <<Digits[n + 1]>>
    ELSE keyOf(n \div 10) \o <<Digits[(n % 10) + 1]>>

ObjectPrototype == 1
FunctionPrototype == 2
StringPrototype == 3
NumberPrototype == 4
ObjectConstructor == 5
FunctionConstructor == 6
StringConstructor == 7
NumberConstructor == 8

\* the built-in functions that are properties of the objects above: the
\* object that holds the function, its name and its length
Methods ==
    << <<1, "__defineGetter__", 2>>, <<1, "__defineSetter__", 2>>,
       <<1, "__lookupGetter__", 1>>, <<1, "__lookupSetter__", 1>>,
       <<1, "hasOwnProperty", 1>>, <<1, "isPrototypeOf", 1>>,
       <<1, "propertyIsEnumerable", 1>>, <<1, "toLocaleString", 0>>,
       <<1, "toString", 0>>, <<1, "valueOf", 0>>,
       <<2, "apply", 2>>, <<2, "bind", 1>>, <<2, "call", 1>>,
       <<2, "toString", 0>>,
       <<3, "anchor", 1>>, <<3, "at", 1>>, <<3, "big", 0>>,
       <<3, "blink", 0>>, <<3, "bold", 0>>, <<3, "charAt", 1>>,
       <<3, "charCodeAt", 1>>, <<3, "codePointAt", 1>>, <<3, "concat", 1>>,
       <<3, "endsWith", 1>>, <<3, "fixed", 0>>, <<3, "fontcolor", 1>>,
       <<3, "fontsize", 1>>, <<3, "includes", 1>>, <<3, "indexOf", 1>>,
       <<3, "isWellFormed", 0>>, <<3, "italics", 0>>,
       <<3, "lastIndexOf", 1>>, <<3, "link", 1>>, <<3, "localeCompare", 1>>,
       <<3, "match", 1>>, <<3, "matchAll", 1>>, <<3, "normalize", 0>>,
       <<3, "padEnd", 1>>, <<3, "padStart", 1>>, <<3, "repeat", 1>>,
       <<3, "replace", 2>>, <<3, "replaceAll", 2>>, <<3, "search", 1>>,
       <<3, "slice", 2>>, <<3, "small", 0>>, <<3, "split", 2>>,
       <<3, "startsWith", 1>>, <<3, "strike", 0>>, <<3, "sub", 0>>,
       <<3, "substr", 2>>, <<3, "substring", 2>>, <<3, "sup", 0>>,
       <<3, "toLocaleLowerCase", 0>>, <<3, "toLocaleUpperCase", 0>>,
       <<3, "toLowerCase", 0>>, <<3, "toString", 0>>,
       <<3, "toUpperCase", 0>>, <<3, "toWellFormed", 0>>, <<3, "trim", 0>>,
       <<3, "trimEnd", 0>>, <<3, "trimStart", 0>>, <<3, "valueOf", 0>>,
       <<4, "toExponential", 1>>, <<4, "toFixed", 1>>,
       <<4, "toLocaleString", 0>>, <<4, "toPrecision", 1>>,
       <<4, "toString", 1>>, <<4, "valueOf", 0>>,
       <<5, "assign", 2>>, <<5, "create", 2>>, <<5, "defineProperties", 2>>,
       <<5, "defineProperty", 3>>, <<5, "entries", 1>>, <<5, "freeze", 1>>,
       <<5, "fromEntries", 1>>, <<5, "getOwnPropertyDescriptor", 2>>,
       <<5, "getOwnPropertyDescriptors", 1>>,
       <<5, "getOwnPropertyNames", 1>>, <<5, "getOwnPropertySymbols", 1>>,
       <<5, "getPrototypeOf", 1>>, <<5, "hasOwn", 2>>,
       <<5, "is", 2>>, <<5, "isExtensible", 1>>, <<5, "isFrozen", 1>>,
       <<5, "isSealed", 1>>, <<5, "keys", 1>>,
       <<5, "preventExtensions", 1>>, <<5, "seal", 1>>,
       <<5, "setPrototypeOf", 2>>, <<5, "values", 1>>,
       <<7, "fromCharCode", 1>>, <<7, "fromCodePoint", 1>>, <<7, "raw", 1>>,
       <<8, "isFinite", 1>>, <<8, "isInteger", 1>>, <<8, "isNaN", 1>>,
       <<8, "isSafeInteger", 1>>, <<8, "parseFloat", 1>>,
       <<8, "parseInt", 2>> >>

\* two names of String.prototype for the function of another name
Aliases ==
    << <<3, "trimLeft", "trimStart">>, <<3, "trimRight", "trimEnd">> >>

\* the constants of Number, with the text String() gives for each
NumberConstants ==
    << <<"EPSILON", "2.220446049250313e-16">>,
       <<"MAX_SAFE_INTEGER", "9007199254740991">>,
       <<"MAX_VALUE", "1.7976931348623157e+308">>,
       <<"MIN_SAFE_INTEGER", "-9007199254740991">>,
       <<"MIN_VALUE", "5e-324">>,
       <<"NaN", "NaN">>,
       <<"NEGATIVE_INFINITY", "-Infinity">>,
       <<"POSITIVE_INFINITY", "Infinity">> >>

\* the reference of the n-th function of Methods
methodId(n) == 8 + n

\* the function that object id holds under the name
methodOf(id, name) ==
    methodId(CHOOSE n \in 1..Len(Methods) :
                Methods[n][1] = id /\ Methods[n][2] = name)

methodProps(id) ==
    [key \in {chars(Methods[n][2]) :
                 n \in {m \in 1..Len(Methods) : Methods[m][1] = id}} |->
        Method(Reference(methodId(CHOOSE n \in 1..Len(Methods) :
                  Methods[n][1] = id /\ chars(Methods[n][2]) = key)))]

aliasProps(id) ==
    [key \in {chars(Aliases[n][2]) :
                 n \in {m \in 1..Len(Aliases) : Aliases[m][1] = id}} |->
        Method(Reference(methodOf(id,
            Aliases[CHOOSE n \in 1..Len(Aliases) :
                       Aliases[n][1] = id /\ chars(Aliases[n][2]) = key][3])))]

constantProps ==
    [key \in {chars(NumberConstants[n][1]) : n \in 1..Len(NumberConstants)}
        |-> ReadOnly(NumberConstant(chars(
               NumberConstants[CHOOSE n \in 1..Len(NumberConstants) :
                   chars(NumberConstants[n][1]) = key][2])))]

\* the own properties of every function: its length and its name
functionProps(name, length) ==
    (LengthKey :> ReadOnly(NumberValue(length)))
    @@ (NameKey :> ReadOnly(StringValue(chars(name))))

builtIn(class, proto, props) ==
    [class |-> class, proto |-> proto, props |-> props, keys |-> <<>>]

constructorOf(name, prototype) ==
    builtIn("Function", FunctionPrototype,
            functionProps(name, 1)
            @@ (PrototypeKey :> ReadOnly(Reference(prototype)))
            @@ methodProps(prototype + 4)
            @@ IF prototype = NumberPrototype THEN constantProps
               ELSE [key \in {} |-> Undefined])

prototypeOf(class, id, proto, props) ==
    builtIn(class, proto,
            props
            @@ (ConstructorKey :> Method(Reference(id + 4)))
            @@ methodProps(id) @@ aliasProps(id))

Realm ==
    << prototypeOf("Object", ObjectPrototype, 0,
                   ProtoKey :> Accessor("__proto__", FALSE)),
       prototypeOf("Function", FunctionPrototype, ObjectPrototype,
                   functionProps("", 0)
                   @@ (chars("arguments") :> Accessor("restricted", FALSE))
                   @@ (chars("caller") :> Accessor("restricted", FALSE))),
       prototypeOf("String", StringPrototype, ObjectPrototype,
                   LengthKey :> ReadOnly(NumberValue(0))),
       prototypeOf("Number", NumberPrototype, ObjectPrototype,
                   [key \in {} |-> Undefined]),
       constructorOf("Object", ObjectPrototype),
       constructorOf("Function", FunctionPrototype),
       constructorOf("String", StringPrototype),
       constructorOf("Number", NumberPrototype) >>
    \o [n \in 1..Len(Methods) |->
          builtIn("Function", FunctionPrototype,
                  functionProps(Methods[n][2], Methods[n][3]))]

\* typeof
typeOf(heap, v) ==
    IF v.t = "null" THEN "object"
    ELSE IF v.t # "object" THEN v.t
    ELSE IF heap[v.id].class = "Function" THEN "function"
    ELSE "object"

\* the object on the prototype chain of id that has key as an own
\* property, or 0
RECURSIVE holderOf(_, _, _)
holderOf(heap, id, key) ==
    IF id = 0 THEN 0
    ELSE IF key \in DOMAIN heap[id].props THEN id
    ELSE holderOf(heap, heap[id].proto, key)

\* the prototype of the object that wraps a string or a number
wrapperOf(v) == IF v.t = "string" THEN StringPrototype ELSE NumberPrototype

\* the own properties of a string: its length and its characters
stringHas(s, key) ==
    \/ key = LengthKey
    \/ /\ isArrayIndex(key)
       /\ Len(key) < 10
       /\ numberOf(key) < Len(s)

stringOwn(s, key) ==
    IF key = LengthKey THEN NumberValue(Len(s))
    ELSE StringValue(<<s[numberOf(key) + 1]>>)

\* the own enumerable keys that the loops of lines 420 and 439 do not skip,
\* in the order of for...in: the array indices ascending, then the others
\* in the order of their creation (the inherited keys that for...in also
\* visits are skipped by the test of hasOwnProperty)
childKeys(heap, id) ==
    LET own == SelectSeq(heap[id].keys,
                   LAMBDA key : key \notin {CountKey, NameKey, FilesKey})
    IN ascending({own[n] : n \in {m \in 1..Len(own) : isArrayIndex(own[m])}})
       \o SelectSeq(own, LAMBDA key : ~isArrayIndex(key))

\* ToPrimitive of an operand of +
toPrimitive(heap, v) ==
    IF v.t # "object" THEN v
    ELSE IF heap[v.id].class = "Number" THEN NumberValue(0)
    ELSE IF heap[v.id].class = "String" THEN StringValue(<<>>)
    ELSE IF heap[v.id].class = "Function"
    THEN StringValue(chars("function ") \o heap[v.id].props[NameKey].v.s
                     \o chars("() { [native code] }"))
    ELSE StringValue(chars("[object Object]"))

\* ToString of a primitive
toText(v) ==
    IF v.t = "string" THEN v.s
    ELSE IF v.t = "undefined" THEN chars("undefined")
    ELSE IF v.t = "null" THEN chars("null")
    ELSE IF "n" \in DOMAIN v THEN keyOf(v.n)
    ELSE v.text

\* a + b, where neither operand is one of the constants of Number (these
\* are read-only properties of which no count is made)
add(heap, a, b) ==
    LET x == toPrimitive(heap, a)
        y == toPrimitive(heap, b)
    IN IF x.t = "number" /\ y.t = "number" THEN NumberValue(x.n + y.n)
       ELSE StringValue(toText(x) \o toText(y))

RECURSIVE get(_, _, _, _)
RECURSIVE getCount(_, _, _)
RECURSIVE sumChildren(_, _, _, _, _)

\* v[key]. active holds the objects whose getter count is running: the
\* getter of an object that is reached again from itself never returns and
\* the call stack overflows
get(heap, v, key, active) ==
    IF v.t \in {"undefined", "null"} THEN Throw("TypeError")
    ELSE IF v.t = "string" /\ stringHas(v.s, key) THEN stringOwn(v.s, key)
    ELSE
    LET holder == holderOf(heap, IF v.t = "object" THEN v.id
                                 ELSE wrapperOf(v), key)
        slot == heap[holder].props[key]
        proto == IF v.t = "object" THEN heap[v.id].proto ELSE wrapperOf(v)
    IN IF holder = 0 THEN Undefined
       ELSE IF slot.a = "data" THEN slot.v
       ELSE IF slot.a = "__proto__"
       THEN IF proto = 0 THEN Null ELSE Reference(proto)
       ELSE IF slot.a = "restricted" THEN Throw("TypeError")
       ELSE getCount(heap, v, active)

\* lines 417-433, the getter count with the value v as this
getCount(heap, v, active) ==
    IF v.t = "object" /\ v.id \in active THEN Throw("RangeError")
    ELSE LET running == IF v.t = "object" THEN active \cup {v.id}
                        ELSE active
             own == get(heap, v, FilesKey, running)
         IN IF own.t = "throw" THEN own
            ELSE sumChildren(heap, v, IF truthy(own) THEN own
                                      ELSE NumberValue(0),
                             IF v.t = "object" THEN childKeys(heap, v.id)
                             ELSE <<>>,
                             running)

\* lines 419-430, over the keys that are left
sumChildren(heap, v, count, keys, active) ==
    IF keys = <<>> THEN count
    ELSE LET children == get(heap, v, Head(keys), active)
             rest == Tail(keys)
         IN IF children.t = "throw" THEN children
            ELSE IF typeOf(heap, children) # "object"
            THEN sumChildren(heap, v, count, rest, active)
            ELSE IF children.t = "null" THEN Throw("TypeError")
            ELSE IF holderOf(heap, children.id, CountKey) = 0
            THEN sumChildren(heap, v, count, rest, active)
            ELSE LET below == get(heap, children, CountKey, active)
                 IN IF below.t = "throw" THEN below
                    ELSE sumChildren(heap, v, add(heap, count, below),
                                     rest, active)

\* whether new is id or has it on its prototype chain
RECURSIVE onChain(_, _, _)
onChain(heap, new, id) ==
    IF new = 0 THEN FALSE
    ELSE IF new = id THEN TRUE
    ELSE onChain(heap, heap[new].proto, id)

\* the setter of __proto__ with the object id as this
setPrototype(heap, id, value) ==
    LET new == IF value.t = "null" THEN 0 ELSE value.id
    IN IF value.t \notin {"null", "object"} \/ new = heap[id].proto
       THEN [heap |-> heap, error |-> "none"]
       ELSE IF id = ObjectPrototype \/ onChain(heap, new, id)
       THEN [heap |-> heap, error |-> "TypeError"]
       ELSE [heap |-> [heap EXCEPT ![id].proto = new], error |-> "none"]

\* v[key] = value in strict mode: the heap after it and the error thrown.
\* An assignment through a read-only property, an accessor without a setter
\* or a primitive throws a TypeError; the setter of __proto__ returns when
\* this is a primitive.
set(heap, v, key, value) ==
    LET failure == [heap |-> heap, error |-> "TypeError"]
        holder == holderOf(heap, IF v.t = "object" THEN v.id
                                 ELSE wrapperOf(v), key)
        slot == heap[holder].props[key]
    IN IF v.t \in {"undefined", "null"} THEN failure
       ELSE IF v.t # "object"
       THEN IF /\ ~(v.t = "string" /\ stringHas(v.s, key))
               /\ holder # 0
               /\ slot.a = "__proto__"
            THEN [heap |-> heap, error |-> "none"]
            ELSE failure
       ELSE IF holder # 0 /\ slot.a = "__proto__"
       THEN setPrototype(heap, v.id, value)
       ELSE IF holder # 0 /\ (slot.a # "data" \/ ~slot.w) THEN failure
       ELSE IF holder = v.id
       THEN [heap |-> [heap EXCEPT ![v.id].props[key].v = value],
             error |-> "none"]
       ELSE [heap |-> [heap EXCEPT
                          ![v.id].props = MapSet(@, key, Data(value)),
                          ![v.id].keys = Append(@, key)],
             error |-> "none"]

\* the names every object inherits from Object.prototype; "name in object"
\* is true for them and object[name] is a function (or, for __proto__, the
\* prototype itself), which is truthy
ObjectPrototypeKeys == DOMAIN Realm[ObjectPrototype].props

(***************************************************************************)
(* The selection of one group (main, lines 136-234)                        *)
(***************************************************************************)
\* fileInfo[f.filepath], line 137: the own entry of the path, or else what
\* the object inherits under that name
IsLive(info, file) ==
    IF file.filepath \in DOMAIN info
    THEN info[file.filepath]
    ELSE file.filepath \in ObjectPrototypeKeys

liveFiles(info, group) ==
    SelectSeq(group.files, LAMBDA f : IsLive(info, f))

\* the order announced by the comment of line 143: file size ascending
compareSizeAscending(a, b) ==
    IF a.filesize < b.filesize THEN -1
    ELSE IF a.filesize > b.filesize THEN 1
    ELSE Len(a.filepath) - Len(b.filepath)

\* the tie-break reversed: among equal sizes the longer path first
compareLongerPathFirst(a, b) ==
    IF a.filesize > b.filesize THEN -1
    ELSE IF a.filesize < b.filesize THEN 1
    ELSE Len(b.filepath) - Len(a.filepath)

compare(a, b) ==
    IF a.filesize > b.filesize THEN -1
    ELSE IF a.filesize < b.filesize THEN 1
    ELSE Len(a.filepath) - Len(b.filepath)

\* stable insertion of x: before the first element that must come after it
insert(sorted, x) ==
    LET later == {n \in 1..Len(sorted) : compare(x, sorted[n]) < 0}
        at == IF later = {} THEN Len(sorted) + 1
              ELSE CHOOSE n \in later : \A m \in later : n <= m
    IN SubSeq(sorted, 1, at - 1) \o <<x>> \o SubSeq(sorted, at, Len(sorted))

RECURSIVE sort(_)
sort(fs) ==
    IF fs = <<>> THEN <<>>
    ELSE insert(sort(SubSeq(fs, 1, Len(fs) - 1)), fs[Len(fs)])

\* the iteration with the size test placed before the Include test
walkStepSizeFirst(fs, ex, inc, st, idx) ==
    LET file == fs[idx + 1] IN
    IF matches(ex, file)
    THEN IF st.keptOne
         THEN [st EXCEPT !.toDelete = MapSet(@, file.fileid, "excluded-dupe")]
         ELSE [st EXCEPT !.keptOne = TRUE]
    ELSE IF idx > st.firstNonIncludedWithSameSize
    THEN [st EXCEPT !.toDelete = MapSet(@, file.fileid, "smaller")]
    ELSE IF matches(inc, file)
    THEN [st EXCEPT
            !.firstNonIncludedWithSameSize =
                IF /\ idx = @
                   /\ idx + 2 <= Len(fs)
                   /\ file.filesize = fs[idx + 2].filesize
                THEN @ + 1 ELSE @,
            !.toDelete = MapSet(@, file.fileid, "include")]
    ELSE [st EXCEPT !.keptOne = TRUE]

\* the iteration without line 197: a kept plain file is not remembered
walkStepForgetsKeeper(fs, ex, inc, st, idx) ==
    LET file == fs[idx + 1] IN
    IF matches(ex, file)
    THEN IF st.keptOne
         THEN [st EXCEPT !.toDelete = MapSet(@, file.fileid, "excluded-dupe")]
         ELSE [st EXCEPT !.keptOne = TRUE]
    ELSE IF matches(inc, file)
    THEN [st EXCEPT
            !.firstNonIncludedWithSameSize =
                IF /\ idx = @
                   /\ idx + 2 <= Len(fs)
                   /\ file.filesize = fs[idx + 2].filesize
                THEN @ + 1 ELSE @,
            !.toDelete = MapSet(@, file.fileid, "include")]
    ELSE IF idx > st.firstNonIncludedWithSameSize
    THEN [st EXCEPT !.toDelete = MapSet(@, file.fileid, "smaller")]
    ELSE st

\* the iteration without lines 168-172: every Exclude-matching file is kept
walkStepKeepsEveryExcluded(fs, ex, inc, st, idx) ==
    LET file == fs[idx + 1] IN
    IF matches(ex, file)
    THEN [st EXCEPT !.keptOne = TRUE]
    ELSE IF matches(inc, file)
    THEN [st EXCEPT
            !.firstNonIncludedWithSameSize =
                IF /\ idx = @
                   /\ idx + 2 <= Len(fs)
                   /\ file.filesize = fs[idx + 2].filesize
                THEN @ + 1 ELSE @,
            !.toDelete = MapSet(@, file.fileid, "include")]
    ELSE IF idx > st.firstNonIncludedWithSameSize
    THEN [st EXCEPT !.toDelete = MapSet(@, file.fileid, "smaller")]
    ELSE [st EXCEPT !.keptOne = TRUE]

\* one iteration of the loop of lines 165-199; idx is the 0-based index
walkStep(fs, ex, inc, st, idx) ==
    LET file == fs[idx + 1] IN
    IF matches(ex, file)
    THEN IF st.keptOne
         THEN [st EXCEPT !.toDelete = MapSet(@, file.fileid, "excluded-dupe")]
         ELSE [st EXCEPT !.keptOne = TRUE]
    ELSE IF matches(inc, file)
    THEN [st EXCEPT
            !.firstNonIncludedWithSameSize =
                IF /\ idx = @
                   /\ idx + 2 <= Len(fs)
                   /\ file.filesize = fs[idx + 2].filesize
                THEN @ + 1 ELSE @,
            !.toDelete = MapSet(@, file.fileid, "include")]
    ELSE IF idx > st.firstNonIncludedWithSameSize
    THEN [st EXCEPT !.toDelete = MapSet(@, file.fileid, "smaller")]
    ELSE [st EXCEPT !.keptOne = TRUE]

RECURSIVE walk(_, _, _, _)
walk(fs, ex, inc, n) ==
    IF n = 0
    THEN [toDelete |-> EmptyMap, firstNonIncludedWithSameSize |-> 0,
          keptOne |-> FALSE]
    ELSE walkStep(fs, ex, inc, walk(fs, ex, inc, n - 1), n - 1)

\* files.findIndex(f => !include.some(...)), 0-based, -1 when there is none
firstNonIncluded(fs, inc) ==
    LET non == {n \in 1..Len(fs) : ~matches(inc, fs[n])}
    IN IF non = {} THEN -1
       ELSE (CHOOSE n \in non : \A m \in non : n <= m) - 1

\* which operand of files[firstNonIncluded] || files[first...] || files[0].
\* An index that is not one of the array reads what the array inherits
\* under its key: undefined, or a directory of the summary that was given
\* that name in Object.prototype, which is an object and so truthy.
fallbackChoice(fs, inc, st) ==
    IF firstNonIncluded(fs, inc) >= 0 THEN "nonIncluded"
    ELSE IF keyOf(-1) \in prototypeKeys THEN "inherited"
    ELSE IF st.firstNonIncludedWithSameSize < Len(fs) THEN "sameSize"
    ELSE IF keyOf(st.firstNonIncludedWithSameSize) \in prototypeKeys
    THEN "inherited"
    ELSE "first"

fallbackIndex(fs, inc, st) ==
    LET c == fallbackChoice(fs, inc, st)
    IN IF c = "nonIncluded" THEN firstNonIncluded(fs, inc)
       ELSE IF c = "sameSize" THEN st.firstNonIncludedWithSameSize
       ELSE 0

\* lines 201-217; the fileid of a directory of the summary is undefined,
\* which is no key of toDelete
allDeletedCorrection(fs, inc, st) ==
    IF /\ Len(fs) = Cardinality(DOMAIN st.toDelete)
       /\ fallbackChoice(fs, inc, st) # "inherited"
    THEN [st EXCEPT !.toDelete =
            MapDelete(@, fs[fallbackIndex(fs, inc, st) + 1].fileid)]
    ELSE st

RECURSIVE setAll(_, _, _)
setAll(m, fs, reason) ==
    IF fs = <<>> THEN m
    ELSE setAll(MapSet(m, Head(fs).fileid, reason), Tail(fs), reason)

\* lines 219-230
noneDeletedCorrection(fs, st) ==
    IF Cardinality(DOMAIN st.toDelete) = 0
    THEN [st EXCEPT !.toDelete = setAll(@, Tail(fs), "excluded-last")]
    ELSE st

select(fs, ex, inc) ==
    LET st1 == walk(fs, ex, inc, Len(fs))
        st2 == allDeletedCorrection(fs, inc, st1)
        st3 == noneDeletedCorrection(fs, st2)
    IN [toDelete |-> st3.toDelete,
        firstNonIncludedWithSameSize |-> st3.firstNonIncludedWithSameSize,
        keptOne |-> st3.keptOne,
        fallback |-> IF Len(fs) = Cardinality(DOMAIN st1.toDelete)
                     THEN fallbackChoice(fs, inc, st1) ELSE "none"]

\* line 232
sanityCheckFails(fs, map) == Cardinality(DOMAIN map) # Len(fs) - 1

exclude == normalizePatterns(args.exclude)
include == normalizePatterns(args.include)

\* the test without lines 157-160: only an empty group is skipped
noDuplicatesEmptyOnly(fs) == Len(fs) = 0

\* lines 153-160: "No files left in this group", "No duplicates in this group"
noDuplicates(fs) == Len(fs) = 0 \/ Len(fs) = 1

\* main, lines 131-251: the group g up to the start of its deletion loop
SelectGroup ==
    /\ pc = "groups"
    /\ g <= Len(results)
    /\ \E fs \in {sort(liveFiles(fileInfo, results[g]))} :
          /\ files' = fs
          /\ IF noDuplicates(fs)
             THEN /\ g' = g + 1
                  /\ pc' = pc
                  /\ thrown' = thrown
                  /\ toDelete' = EmptyMap
                  /\ firstNonIncludedWithSameSize' = 0
                  /\ keptOne' = FALSE
                  /\ fallback' = "none"
             ELSE \E sel \in {select(fs, exclude, include)} :
                  /\ g' = g
                  /\ toDelete' = sel.toDelete
                  /\ firstNonIncludedWithSameSize' =
                        sel.firstNonIncludedWithSameSize
                  /\ keptOne' = sel.keptOne
                  /\ fallback' = sel.fallback
                  /\ pc' = IF sanityCheckFails(fs, sel.toDelete)
                           THEN "crashed" ELSE "deleting"
                  /\ thrown' = IF sanityCheckFails(fs, sel.toDelete)
                               THEN "Sanity check" ELSE thrown
    /\ d' = 1
    /\ UNCHANGED <<args, results, cacheFile, run, fileInfo, i, statCalls,
                   cacheRead, loaded, recorded, failed, prevFailed,
                   deleted, deletedSize, deleteCalls, prototypeKeys>>

(***************************************************************************)
(* getFilesInfo (lines 294-359)                                            *)
(***************************************************************************)
SaveEvery == 2

NoFile == [exists |-> FALSE, parses |-> FALSE, data |-> EmptyMap]

RECURSIVE flatten(_)
flatten(groups) ==
    IF groups = <<>> THEN <<>>
    ELSE Head(groups).files \o flatten(Tail(groups))

\* fileInfo[file.filepath]: a truthiness test instead of the membership test
InCacheTruthy(info, path) == path \in DOMAIN info /\ info[path]

\* file.filepath in fileInfo: the own keys and the inherited ones
InCache(info, path) ==
    \/ path \in DOMAIN info
    \/ path \in ObjectPrototypeKeys

\* what a call of writeFile can do: write the whole text, or reject leaving
\* the file as it was, or reject leaving a text cut short
WriteOutcomes == {"written", "failed", "truncated"}

\* line 310: the file at cachePath after writeFile; it holds
\* JSON.stringify({...fileInfo}) when the call succeeds
writeFile(file, info, outcome) ==
    IF outcome = "written"
    THEN [exists |-> TRUE, parses |-> TRUE, data |-> info]
    ELSE IF outcome = "truncated"
    THEN [exists |-> TRUE, parses |-> FALSE, data |-> EmptyMap]
    ELSE file

\* lines 308-311
saveCacheData(cacheInfo, file, info, outcome) ==
    IF ~cacheInfo THEN file ELSE writeFile(file, info, outcome)

\* the promise of saveCacheData rejects; neither await is in a try block
saveThrows(cacheInfo, outcome) == cacheInfo /\ outcome # "written"

outcomesOf(cacheInfo, saving) ==
    IF cacheInfo /\ saving THEN WriteOutcomes ELSE {"written"}

\* line 304: readFile is called when the cache is enabled and the file is
\* there; its promise resolves with the text or rejects
readOutcomes(cacheInfo, file) ==
    IF cacheInfo /\ file.exists THEN {"read", "failed"} ELSE {"none"}

\* lines 297-314: the cache is read when enabled and present; a rejected
\* readFile and a JSON.parse of a text that is not JSON throw
LoadCache ==
    /\ pc = "start"
    /\ \E outcome \in readOutcomes(args.cacheInfo, cacheFile) :
          /\ cacheRead' = (outcome = "read")
          /\ IF outcome = "failed"
             THEN /\ pc' = "crashed"
                  /\ thrown' = "readFile"
                  /\ fileInfo' = EmptyMap
             ELSE IF outcome = "read" /\ ~cacheFile.parses
             THEN /\ pc' = "crashed"
                  /\ thrown' = "JSON.parse"
                  /\ fileInfo' = EmptyMap
             ELSE /\ pc' = "resolving"
                  /\ thrown' = thrown
                  /\ fileInfo' = IF outcome = "read" THEN cacheFile.data
                                 ELSE EmptyMap
    /\ loaded' = DOMAIN fileInfo'
    /\ i' = 0
    /\ UNCHANGED <<args, results, cacheFile, run, statCalls, recorded, failed,
                   prevFailed, g, files, toDelete,
                   firstNonIncludedWithSameSize, keptOne, fallback, d,
                   deleted, deletedSize, deleteCalls, prototypeKeys>>

\* lines 317-351: one iteration of the loops over the groups and their files
ResolveFile ==
    /\ pc = "resolving"
    /\ i < Len(flatten(results))
    /\ LET file == flatten(results)[i + 1]
           saving == (i + 1) % SaveEvery = 0
       IN
       /\ i' = i + 1
       /\ IF InCache(fileInfo, file.filepath)
          THEN UNCHANGED <<cacheFile, fileInfo, statCalls, recorded, failed,
                           pc, thrown>>
          ELSE \E outcome \in outcomesOf(args.cacheInfo, saving) :
               /\ cacheFile' = IF saving
                               THEN saveCacheData(args.cacheInfo, cacheFile,
                                                  fileInfo, outcome)
                               ELSE cacheFile
               /\ IF saving /\ saveThrows(args.cacheInfo, outcome)
                  THEN /\ pc' = "crashed"
                       /\ thrown' = "writeFile"
                       /\ UNCHANGED <<fileInfo, statCalls, recorded, failed>>
                  ELSE /\ UNCHANGED <<pc, thrown>>
                       /\ recorded' = recorded \cup {file.filepath}
                       /\ IF startsWith(file.filepath, TrashPrefix)
                          THEN /\ fileInfo' =
                                     MapSet(fileInfo, file.filepath, FALSE)
                               /\ UNCHANGED <<statCalls, failed>>
                          ELSE \E ok \in BOOLEAN :
                               /\ statCalls' = Append(statCalls,
                                     [path |-> file.filepath,
                                      arg |-> cleanupPath(file.filepath)])
                               /\ fileInfo' =
                                     MapSet(fileInfo, file.filepath, ok)
                               /\ failed' = IF ok THEN failed
                                            ELSE failed \cup {file.filepath}
    /\ UNCHANGED <<args, results, run, cacheRead, loaded, prevFailed, g,
                   files, toDelete, firstNonIncludedWithSameSize, keptOne,
                   fallback, d, deleted, deletedSize, deleteCalls,
                   prototypeKeys>>

(***************************************************************************)
(* printFileSummary (lines 387-451). The tree of directories is made of    *)
(* objects of the heap; a directory whose name is a property that its      *)
(* parent already has (name, files, count, or a name inherited from a      *)
(* built-in object) is not a new object but the value of that property.    *)
(* The module is in strict mode.                                           *)
(***************************************************************************)
\* lines 414-436: the object of a new directory
getNewFileMap(name) ==
    [class |-> "Object", proto |-> ObjectPrototype,
     props |-> (NameKey :> Data(StringValue(name)))
               @@ (CountKey :> Accessor("count", TRUE))
               @@ (FilesKey :> Data(NumberValue(0))),
     keys |-> <<NameKey, CountKey, FilesKey>>]

\* line 388: the reference of fileMap
Root == Len(Realm) + 1

\* line 399: the pattern [index, part] takes two elements of the entry and
\* then closes its iterator, for which it reads the property return of the
\* iterator. An array iterator has none unless Object.prototype has one;
\* the value that a directory gives it is an object, which cannot be
\* called, and the pattern throws.
closeThrows(heap) ==
    LET method == get(heap, Reference(ObjectPrototype), chars("return"), {})
    IN method.t \notin {"undefined", "null"}
       /\ typeOf(heap, method) # "function"

\* lines 399-406, the iteration of one directory of a path
descend(st, part) ==
    IF st.error # "none" THEN st
    ELSE IF closeThrows(st.heap) THEN [st EXCEPT !.error = "TypeError"]
    ELSE
    LET prevMap == IF st.prevPart # <<>>
                   THEN get(st.heap, st.prevMap, st.prevPart, {})
                   ELSE st.prevMap
        found == get(st.heap, prevMap, part, {})
        heap == IF truthy(found) THEN st.heap
                ELSE Append(st.heap, getNewFileMap(part))
        currentMap == IF truthy(found) THEN found ELSE Reference(Len(heap))
        written == set(heap, prevMap, part, currentMap)
    IN IF prevMap.t = "throw" THEN [st EXCEPT !.error = prevMap.error]
       ELSE IF found.t = "throw" THEN [st EXCEPT !.error = found.error]
       ELSE IF written.error # "none"
       THEN [st EXCEPT !.error = written.error]
       ELSE [heap |-> written.heap,
             prevMap |-> prevMap,
             currentMap |-> currentMap,
             prevPart |-> part,
             error |-> "none"]

RECURSIVE descendAll(_, _)
descendAll(st, parts) ==
    IF parts = <<>> THEN st
    ELSE descendAll(descend(st, Head(parts)), Tail(parts))

\* lines 399-400, the iteration of the last part of the path, and line
\* 409: currentMap.files = (currentMap.files || 0) + 1
countFile(st) ==
    IF st.error # "none" THEN st
    ELSE IF closeThrows(st.heap) THEN [st EXCEPT !.error = "TypeError"]
    ELSE LET own == get(st.heap, st.currentMap, FilesKey, {})
             sum == add(st.heap,
                        IF truthy(own) THEN own ELSE NumberValue(0),
                        NumberValue(1))
             written == set(st.heap, st.currentMap, FilesKey, sum)
         IN IF own.t = "throw" THEN [st EXCEPT !.error = own.error]
            ELSE [st EXCEPT !.heap = written.heap,
                            !.error = written.error]

\* lines 398-400: the parts of the path but the last
directories(path) ==
    LET parts == split(cleanupPath(path))
    IN SubSeq(parts, 1, Len(parts) - 1)

\* lines 391-409: one key of filesInfo
summarize(tree, info, path) ==
    IF tree.error # "none" \/ ~info[path] THEN tree
    ELSE LET st == countFile(descendAll(
                      [heap |-> tree.heap,
                       prevMap |-> Reference(Root),
                       currentMap |-> Reference(Root),
                       prevPart |-> <<>>,
                       error |-> "none"],
                      directories(path)))
         IN [heap |-> st.heap, error |-> st.error]

RECURSIVE summarizeAll(_, _, _)
summarizeAll(tree, info, keys) ==
    IF keys = <<>> THEN tree
    ELSE summarizeAll(summarize(tree, info, Head(keys)), info, Tail(keys))

\* the order in which for...in (line 390) visits the keys of fileInfo: the
\* array indices in ascending order, then the other keys in the order of
\* their creation, which is the order of the files of the export (the
\* keys read from the cache file were created in that order by an earlier
\* execution on this export)
forInKeys(info, groups) ==
    LET all == flatten(groups)
        created == uniq([n \in 1..Len(all) |-> all[n].filepath])
    IN ascending({key \in DOMAIN info : isArrayIndex(key)})
       \o SelectSeq(created,
                    LAMBDA key : key \in DOMAIN info /\ ~isArrayIndex(key))

RECURSIVE printMap(_, _, _)
RECURSIVE printChildren(_, _, _, _)

\* lines 438-450: the error that printMap(indent, fileMap) throws, or
\* "none". active holds the objects whose call of printMap is running.
printMap(heap, id, active) ==
    IF id \in active THEN "RangeError"
    ELSE printChildren(heap, id, childKeys(heap, id), active \cup {id})

\* lines 439-449, over the keys that are left
printChildren(heap, id, keys, active) ==
    IF keys = <<>> THEN "none"
    ELSE LET children == get(heap, Reference(id), Head(keys), {})
             rest == Tail(keys)
         IN IF children.t = "throw" THEN children.error
            ELSE IF typeOf(heap, children) # "object"
            THEN printChildren(heap, id, rest, active)
            ELSE IF children.t = "null" THEN "TypeError"
            ELSE IF holderOf(heap, children.id, CountKey) = 0
            THEN printChildren(heap, id, rest, active)
            ELSE LET name == get(heap, children, NameKey, {})
                     count == get(heap, children, CountKey, {})
                     below == printMap(heap, children.id, active)
                 IN IF name.t = "throw" THEN name.error
                    ELSE IF count.t = "throw" THEN count.error
                    ELSE IF below # "none" THEN below
                    ELSE printChildren(heap, id, rest, active)

\* lines 388-412: the heap when printFileSummary returns or throws, and the
\* error it throws
printFileSummary(info, groups) ==
    LET tree == summarizeAll([heap |-> Append(Realm, getNewFileMap(BaseName)),
                              error |-> "none"],
                             info, forInKeys(info, groups))
    IN IF tree.error # "none" THEN tree
       ELSE [heap |-> tree.heap, error |-> printMap(tree.heap, Root, {})]

\* the names that Object.prototype has got in the heap
addedKeys(heap) == DOMAIN heap[ObjectPrototype].props \ ObjectPrototypeKeys

\* lines 354-358 and main, lines 121-129
EndResolve ==
    /\ pc = "resolving"
    /\ i = Len(flatten(results))
    /\ \E outcome \in outcomesOf(args.cacheInfo, TRUE),
          summary \in {printFileSummary(fileInfo, results)} :
          /\ cacheFile' = saveCacheData(args.cacheInfo, cacheFile, fileInfo,
                                        outcome)
          /\ IF saveThrows(args.cacheInfo, outcome)
             THEN /\ pc' = "crashed"
                  /\ thrown' = "writeFile"
                  /\ prototypeKeys' = prototypeKeys
             ELSE IF summary.error # "none"
             THEN /\ pc' = "crashed"
                  /\ thrown' = summary.error
                  /\ prototypeKeys' = addedKeys(summary.heap)
             ELSE /\ pc' = "groups"
                  /\ thrown' = thrown
                  /\ prototypeKeys' = addedKeys(summary.heap)
    /\ g' = 1
    /\ deleted' = 0
    /\ deletedSize' = 0
    /\ UNCHANGED <<args, results, run, fileInfo, i, statCalls, cacheRead,
                   loaded, recorded, failed, prevFailed, files, toDelete,
                   firstNonIncludedWithSameSize, keptOne, fallback, d,
                   deleteCalls>>

(***************************************************************************)
(* The deletion loop (main, lines 252-262) and remove (lines 74-90)        *)
(***************************************************************************)
\* remove without the test of args.dryRun
removeAlways(dryRun, calls, file, ok) ==
    Append(calls, [path |-> file.filepath,
                   arg |-> cleanupPath(file.filepath), ok |-> ok])

\* remove: the calls of webdavClient.deleteFile after remove(file); ok tells
\* whether the call returns or throws (the throw is caught at line 82)
remove(dryRun, calls, file, ok) ==
    IF ~dryRun
    THEN Append(calls, [path |-> file.filepath,
                        arg |-> cleanupPath(file.filepath), ok |-> ok])
    ELSE calls

\* the iteration with the catch around the loop: a throw ends the loop
DeleteIterStopsAtFailure ==
    /\ pc = "deleting"
    /\ d <= Len(files)
    /\ IF ~MapHas(toDelete, files[d].fileid)
       THEN /\ d' = d + 1
            /\ UNCHANGED <<deleted, deletedSize, deleteCalls>>
       ELSE /\ deleted' = deleted + 1
            /\ deletedSize' = deletedSize + files[d].filesize
            /\ \E ok \in (IF args.dryRun THEN {TRUE} ELSE BOOLEAN) :
                  /\ deleteCalls' =
                        remove(args.dryRun, deleteCalls, files[d], ok)
                  /\ d' = IF ok THEN d + 1 ELSE Len(files) + 1
    /\ UNCHANGED <<args, results, cacheFile, run, pc, thrown, fileInfo, i,
                   statCalls, cacheRead, loaded, recorded, failed, prevFailed,
                   g, files, toDelete, firstNonIncludedWithSameSize, keptOne,
                   fallback, prototypeKeys>>

\* lines 253-259: one iteration
DeleteIter ==
    /\ pc = "deleting"
    /\ d <= Len(files)
    /\ d' = d + 1
    /\ IF ~MapHas(toDelete, files[d].fileid)
       THEN UNCHANGED <<deleted, deletedSize, deleteCalls>>
       ELSE /\ deleted' = deleted + 1
            /\ deletedSize' = deletedSize + files[d].filesize
            /\ \E ok \in (IF args.dryRun THEN {TRUE} ELSE BOOLEAN) :
                  deleteCalls' = remove(args.dryRun, deleteCalls, files[d], ok)
    /\ UNCHANGED <<args, results, cacheFile, run, pc, thrown, fileInfo, i,
                   statCalls, cacheRead, loaded, recorded, failed, prevFailed,
                   g, files, toDelete, firstNonIncludedWithSameSize, keptOne,
                   fallback, prototypeKeys>>

\* line 261
EndGroup ==
    /\ pc = "deleting"
    /\ d > Len(files)
    /\ g' = g + 1
    /\ pc' = "groups"
    /\ UNCHANGED <<args, results, cacheFile, run, thrown, fileInfo, i, statCalls,
                   cacheRead, loaded, recorded, failed, prevFailed, files,
                   toDelete, firstNonIncludedWithSameSize, keptOne, fallback,
                   d, deleted, deletedSize, deleteCalls, prototypeKeys>>

\* line 289: rmSync is called after a real run when the cache is enabled
\* and the file is there; it removes the file or throws
removeOutcomes(cacheInfo, dryRun, file) ==
    IF cacheInfo /\ file.exists /\ ~dryRun
    THEN {"removed", "failed"} ELSE {"none"}

\* lines 264-291: the summary, and the cache file is removed after a real
\* run; a throw of rmSync is not caught in main
Finish ==
    /\ pc = "groups"
    /\ g > Len(results)
    /\ \E outcome \in removeOutcomes(args.cacheInfo, args.dryRun, cacheFile) :
          /\ cacheFile' = IF outcome = "removed" THEN NoFile ELSE cacheFile
          /\ pc' = IF outcome = "failed" THEN "crashed" ELSE "done"
          /\ thrown' = IF outcome = "failed" THEN "rmSync" ELSE thrown
    /\ UNCHANGED <<args, results, run, fileInfo, i, statCalls, cacheRead,
                   loaded, recorded, failed, prevFailed, g, files, toDelete,
                   firstNonIncludedWithSameSize, keptOne, fallback, d,
                   deleted, deletedSize, deleteCalls, prototypeKeys>>

\* the program is started again on the same export, with its own options
StartRun ==
    /\ pc \in {"done", "crashed"}
    /\ run < MaxRuns
    /\ run' = run + 1
    /\ \E dry \in BOOLEAN, cache \in BOOLEAN :
          args' = [args EXCEPT !.dryRun = dry, !.cacheInfo = cache]
    /\ pc' = "start"
    /\ thrown' = "none"
    /\ prevFailed' = failed
    /\ fileInfo' = EmptyMap
    /\ i' = 0
    /\ statCalls' = <<>>
    /\ cacheRead' = FALSE
    /\ loaded' = {}
    /\ recorded' = {}
    /\ failed' = {}
    /\ g' = 1
    /\ files' = <<>>
    /\ toDelete' = EmptyMap
    /\ firstNonIncludedWithSameSize' = 0
    /\ keptOne' = FALSE
    /\ fallback' = "none"
    /\ d' = 1
    /\ deleted' = 0
    /\ deletedSize' = 0
    /\ deleteCalls' = <<>>
    /\ prototypeKeys' = {}
    /\ UNCHANGED <<results, cacheFile>>

(***************************************************************************)
(* Executions of the program on an export                                  *)
(***************************************************************************)
PathA == FilesPrefix \o <<"a">>
PathAB == FilesPrefix \o <<"a", "b">>
PathB == FilesPrefix \o <<"b">>
PathK == FilesPrefix \o <<"K">>
PathW == <<"w">>
PathTrash == TrashPrefix \o <<"/", "a">>
PathConstructor == <<"c", "o", "n", "s", "t", "r", "u", "c", "t", "o", "r">>
PathCountX == FilesPrefix \o <<"c", "o", "u", "n", "t", "/", "x">>
PathMinusOne == FilesPrefix \o chars("__proto__/-1/x")
PathProtoA == FilesPrefix \o chars("__proto__/a/x")
PathAA == FilesPrefix \o chars("a/a/x")

FileA == [fileid |-> 1, filepath |-> PathA, filesize |-> 2]
FileAB == [fileid |-> 2, filepath |-> PathAB, filesize |-> 2]
FileK == [fileid |-> 3, filepath |-> PathK, filesize |-> 1]
FileW == [fileid |-> 4, filepath |-> PathW, filesize |-> 2]
FileTrash == [fileid |-> 5, filepath |-> PathTrash, filesize |-> 2]
FileB == [fileid |-> 6, filepath |-> PathB, filesize |-> 2]
FileConstructor ==
    [fileid |-> 7, filepath |-> PathConstructor, filesize |-> 2]
FileCountX == [fileid |-> 8, filepath |-> PathCountX, filesize |-> 2]
FileMinusOne == [fileid |-> 9, filepath |-> PathMinusOne, filesize |-> 2]
FileProtoA == [fileid |-> 10, filepath |-> PathProtoA, filesize |-> 2]
FileAA == [fileid |-> 11, filepath |-> PathAA, filesize |-> 2]

Exports ==
    { <<[group_id |-> 1, files |-> <<FileAB, FileA, FileK>>]>>,
      <<[group_id |-> 1, files |-> <<FileA, FileTrash, FileW>>],
        [group_id |-> 2, files |-> <<FileW, FileK, FileA>>]>>,
      <<[group_id |-> 1, files |-> <<FileTrash>>],
        [group_id |-> 2, files |-> <<FileW, FileAB>>]>>,
      <<[group_id |-> 1, files |-> <<FileA, FileB>>],
        [group_id |-> 2, files |-> <<FileB, FileA>>]>>,
      <<[group_id |-> 1, files |-> <<FileConstructor, FileK>>]>>,
      <<[group_id |-> 1, files |-> <<FileCountX, FileA>>]>>,
      <<[group_id |-> 1, files |-> <<FileMinusOne, FileW>>]>>,
      <<[group_id |-> 1, files |-> <<FileProtoA, FileAA>>]>> }

Rules == { <<<<>>, <<>>>>, <<<<<<"\t", "k">>, <<"K">>>>, <<<<"W", " ">>>>>> }

Init ==
    /\ \E rule \in Rules, dry \in BOOLEAN, cache \in BOOLEAN :
          args = [dryRun |-> dry, cacheInfo |-> cache,
                  exclude |-> rule[1], include |-> rule[2]]
    /\ results \in Exports
    /\ cacheFile = NoFile
    /\ run = 1
    /\ pc = "start"
    /\ thrown = "none"
    /\ fileInfo = EmptyMap
    /\ i = 0
    /\ statCalls = <<>>
    /\ cacheRead = FALSE
    /\ loaded = {}
    /\ recorded = {}
    /\ failed = {}
    /\ prevFailed = {}
    /\ g = 1
    /\ files = <<>>
    /\ toDelete = EmptyMap
    /\ firstNonIncludedWithSameSize = 0
    /\ keptOne = FALSE
    /\ fallback = "none"
    /\ d = 1
    /\ deleted = 0
    /\ deletedSize = 0
    /\ deleteCalls = <<>>
    /\ prototypeKeys = {}

Next ==
    \/ LoadCache
    \/ ResolveFile
    \/ EndResolve
    \/ SelectGroup
    \/ DeleteIter
    \/ EndGroup
    \/ Finish
    \/ StartRun

Spec == Init /\ [][Next]_vars

(***************************************************************************)
(* Selection of one group, over every group of at most MaxFiles files      *)
(***************************************************************************)
SelectPaths == {<<"a">>, <<"a", "É">>, <<"k">>, <<"w">>, <<"K", "w">>,
                <<"b">>}
SelectAbsent == {<<"b">>}
Sizes == {1, 2}
ExcludeArgs == {<<>>, <<<<"\t", "k">>, <<"K">>>>}
IncludeArgs == {<<>>, <<<<"W", " ">>, <<"é">>>>, <<<<" ">>>>}
\* what printFileSummary left in Object.prototype before the group: nothing,
\* or the directory "-1" of the live file PathMinusOne of another group
\* (drawn for the groups of distinct ids under no Exclude pattern)
SelectPrototypeKeys == {{}, {keyOf(-1)}}
\* the ids of the files of a group: all distinct, or the first two equal
IdSchemes == {"distinct", "shared"}

fileIdAt(scheme, n) == IF scheme = "shared" /\ n = 2 THEN 1 ELSE n

SelectInputs ==
    UNION {[1..n -> SelectPaths \X Sizes] : n \in 0..MaxFiles}

groupOf(input, scheme) ==
    [group_id |-> 1,
     files |-> [n \in 1..Len(input) |->
                   [fileid |-> fileIdAt(scheme, n),
                    filepath |-> input[n][1],
                    filesize |-> input[n][2]]]]

InitSelect ==
    /\ \E ex \in ExcludeArgs, inc \in IncludeArgs :
          args = [dryRun |-> TRUE, cacheInfo |-> FALSE,
                  exclude |-> ex, include |-> inc]
    /\ \E input \in SelectInputs, scheme \in IdSchemes :
          /\ results = <<groupOf(input, scheme)>>
          /\ prototypeKeys \in
                IF scheme = "distinct" /\ args.exclude = <<>>
                THEN SelectPrototypeKeys ELSE {{}}
    /\ cacheFile = NoFile
    /\ run = 1
    /\ pc = "groups"
    /\ thrown = "none"
    /\ fileInfo = [p \in SelectPaths \cup
                          (IF prototypeKeys = {} THEN {} ELSE {PathMinusOne})
                     |-> p \notin SelectAbsent]
    /\ i = 0
    /\ statCalls = <<>>
    /\ cacheRead = FALSE
    /\ loaded = {}
    /\ recorded = {}
    /\ failed = {}
    /\ prevFailed = {}
    /\ g = 1
    /\ files = <<>>
    /\ toDelete = EmptyMap
    /\ firstNonIncludedWithSameSize = 0
    /\ keptOne = FALSE
    /\ fallback = "none"
    /\ d = 1
    /\ deleted = 0
    /\ deletedSize = 0
    /\ deleteCalls = <<>>

NextSelect == SelectGroup

SpecSelect == InitSelect /\ [][NextSelect]_vars

Selected == pc \in {"deleting", "crashed"}
DistinctIds ==
    \A m, n \in 1..Len(files) : m # n => files[m].fileid # files[n].fileid
Kept == {n \in 1..Len(files) : ~MapHas(toDelete, files[n].fileid)}
Marked == {n \in 1..Len(files) : MapHas(toDelete, files[n].fileid)}

matchesExclude(n) == matches(exclude, files[n])
matchesInclude(n) == matches(include, files[n])
reasonOf(n) == toDelete[files[n].fileid]

(***************************************************************************)
(* C1: for every group with N >= 2 live files of distinct fileIds, and any *)
(* Exclude/Include patterns, sizes and path lengths, the selection ends    *)
(* with exactly N-1 files marked Delete and exactly 1 file kept, and the   *)
(* sanity check of line 232 does not throw.                                *)
(***************************************************************************)
C1_SingleSurvivor ==
    (Selected /\ DistinctIds) =>
        /\ pc # "crashed"
        /\ Cardinality(Marked) = Len(files) - 1
        /\ Cardinality(Kept) = 1

(***************************************************************************)
(* C2: in a group of exactly 2 live files where exactly one path matches   *)
(* an Exclude pattern and no path matches an Include pattern, the          *)
(* Exclude-matching file is kept and the other one is deleted, whichever   *)
(* of the two comes first in sorted order.                                 *)
(***************************************************************************)
C2_ExcludedIsKept ==
    (/\ Selected
     /\ DistinctIds
     /\ Len(files) = 2
     /\ \A n \in 1..2 : ~matchesInclude(n)
     /\ Cardinality({n \in 1..2 : matchesExclude(n)}) = 1)
    => \A n \in 1..2 : (n \in Kept) <=> matchesExclude(n)

(***************************************************************************)
(* C3: in a group of exactly 2 live files of identical size where exactly  *)
(* one path matches an Include pattern and neither matches an Exclude      *)
(* pattern, the Include-matching file is marked Delete with the reason     *)
(* "include" and the other file is kept, whichever comes first.            *)
(***************************************************************************)
C3_Case ==
    /\ Selected
    /\ DistinctIds
    /\ Len(files) = 2
    /\ files[1].filesize = files[2].filesize
    /\ \A n \in 1..2 : ~matchesExclude(n)
    /\ Cardinality({n \in 1..2 : matchesInclude(n)}) = 1

C3_IncludeTieBreak ==
    C3_Case =>
        \A n \in 1..2 :
            IF matchesInclude(n)
            THEN n \in Marked /\ reasonOf(n) = "include"
            ELSE n \in Kept

C3_Witness ==
    /\ C3_Case
    /\ matchesInclude(1)
    /\ firstNonIncludedWithSameSize = 1
    /\ Kept = {2}

(***************************************************************************)
(* C4: if every live file of a group (N >= 2) matches an Include pattern   *)
(* and none matches an Exclude pattern, then for any sizes exactly one     *)
(* file is retained and it is the first file of the sorted sequence.       *)
(***************************************************************************)
C4_AllIncludedKeepsFirst ==
    (/\ Selected
     /\ DistinctIds
     /\ \A n \in 1..Len(files) : matchesInclude(n) /\ ~matchesExclude(n))
    => Kept = {1}

(***************************************************************************)
(* C5: under dry-run no remote delete call is issued for any file of any   *)
(* group during the whole execution.                                       *)
(***************************************************************************)
C5_DryRunDeletesNothing == args.dryRun => deleteCalls = <<>>

C5_Witness ==
    /\ args.dryRun
    /\ pc = "done"
    /\ deleted > 0
    /\ deleteCalls = <<>>

(***************************************************************************)
(* C6: the final deleted count and deleted bytes of an execution reflect   *)
(* only the files whose remote delete call succeeded: a file whose remote  *)
(* delete throws is not added to the count or to the byte total.           *)
(***************************************************************************)
sizeOfPath(path) ==
    LET fs == flatten(results)
    IN fs[CHOOSE n \in 1..Len(fs) : fs[n].filepath = path].filesize

RECURSIVE succeededBytes(_)
succeededBytes(calls) ==
    IF calls = <<>> THEN 0
    ELSE (IF Head(calls).ok THEN sizeOfPath(Head(calls).path) ELSE 0)
         + succeededBytes(Tail(calls))

succeeded(calls) == Cardinality({n \in 1..Len(calls) : calls[n].ok})

C6_CountsOnlySuccesses ==
    (pc = "done" /\ ~args.dryRun) =>
        /\ deleted = succeeded(deleteCalls)
        /\ deletedSize = succeededBytes(deleteCalls)

(***************************************************************************)
(* C7: with caching enabled, at every point of the resolution the number   *)
(* of status entries recorded in fileInfo during this execution and        *)
(* missing from the last persisted snapshot is at most SaveEvery - 1.      *)
(***************************************************************************)
persisted ==
    IF cacheFile.exists /\ cacheFile.parses THEN DOMAIN cacheFile.data ELSE {}
unsaved == recorded \ persisted

C7_UnsavedBelowBatch ==
    (args.cacheInfo /\ pc = "resolving") =>
        Cardinality(unsaved) <= SaveEvery - 1

(***************************************************************************)
(* C8: a path whose remote status query failed in one execution is queried *)
(* again in the next execution, when that one runs with caching enabled    *)
(* and reads the cache persisted by the first.                             *)
(***************************************************************************)
queried(path) == \E n \in 1..Len(statCalls) : statCalls[n].path = path

C8_FailedIsQueriedAgain ==
    (/\ run >= 2
     /\ pc \in {"groups", "deleting", "done"}
     /\ args.cacheInfo
     /\ cacheRead)
    => \A path \in prevFailed : queried(path)

(***************************************************************************)
(* C9: with empty Exclude and Include sets, in every group with N >= 2     *)
(* live files the single kept file has the maximal size among the live     *)
(* files and, among those of maximal size, the minimal path length; every  *)
(* other live file is marked Delete with the reason "smaller".             *)
(***************************************************************************)
C9_Case ==
    /\ Selected
    /\ DistinctIds
    /\ exclude = <<>>
    /\ include = <<>>

C9_KeepsBiggestShortest ==
    C9_Case =>
        \E k \in 1..Len(files) :
            /\ Kept = {k}
            /\ \A n \in 1..Len(files) :
                  /\ files[n].filesize <= files[k].filesize
                  /\ files[n].filesize = files[k].filesize =>
                        Len(files[k].filepath) <= Len(files[n].filepath)
                  /\ n # k => n \in Marked /\ reasonOf(n) = "smaller"

C9_Witness ==
    /\ C9_Case
    /\ Len(files) >= 3
    /\ Kept = {1}
    /\ files[2].filesize = files[1].filesize
    /\ Len(files[2].filepath) > Len(files[1].filepath)
    /\ files[3].filesize < files[1].filesize
    /\ results[1].files[1] # files[1]

(***************************************************************************)
(* C10: a path already present in fileInfo (read from the persisted        *)
(* snapshot, as Live or as Absent, or recorded earlier in the same         *)
(* execution) never receives a remote status query; hence an execution     *)
(* that reads a cache holding every path of the export issues no remote    *)
(* status query.                                                           *)
(***************************************************************************)
C10_CachedIsNeverQueried ==
    /\ \A n \in 1..Len(statCalls) :
          /\ statCalls[n].path \notin loaded
          /\ \A m \in 1..(n - 1) : statCalls[m].path # statCalls[n].path
    /\ (/\ cacheRead
        /\ \A n \in 1..Len(flatten(results)) :
              flatten(results)[n].filepath \in loaded)
       => statCalls = <<>>

C10_Witness ==
    /\ run = 2
    /\ pc = "done"
    /\ cacheRead
    /\ statCalls = <<>>
    /\ \E path \in loaded : ~startsWith(path, TrashPrefix) /\ ~fileInfo[path]
    /\ \E path \in loaded : fileInfo[path]
    /\ \A n \in 1..Len(flatten(results)) :
          flatten(results)[n].filepath \in loaded

(***************************************************************************)
(* C11: in a group with N >= 2 live files where exactly one path matches   *)
(* an Exclude pattern, the Exclude-matching file is deleted only if a      *)
(* non-excluded file earlier in sorted order was chosen as keeper (its     *)
(* reason is then "excluded-dupe"); otherwise it is the kept file.         *)
(***************************************************************************)
C11_Case ==
    /\ Selected
    /\ DistinctIds
    /\ Cardinality({n \in 1..Len(files) : matchesExclude(n)}) = 1

excluded == CHOOSE n \in 1..Len(files) : matchesExclude(n)

C11_ExcludedYieldsToEarlierKeeper ==
    C11_Case =>
        IF \E m \in 1..(excluded - 1) : m \in Kept
        THEN excluded \in Marked /\ reasonOf(excluded) = "excluded-dupe"
        ELSE Kept = {excluded}

C11_Witness ==
    /\ C11_Case
    /\ Len(files) >= 3
    /\ excluded = 2
    /\ Kept = {1}
    /\ reasonOf(2) = "excluded-dupe"

(***************************************************************************)
(* C12: when at least one Include pattern is given, only the files whose   *)
(* path matches an Include pattern are considered for deletion: a live     *)
(* file whose path matches no Include pattern is never marked Delete.      *)
(***************************************************************************)
C12_OnlyIncludedAreDeleted ==
    (Selected /\ DistinctIds /\ include # <<>>) =>
        \A n \in Marked : matchesInclude(n)

(***************************************************************************)
(* C13: a persisted cache snapshot that does not parse is treated as an    *)
(* empty cache: the execution that reads it is not aborted by the parse    *)
(* error, it goes on to resolution, selection and deletion.                *)
(***************************************************************************)
C13_CorruptCacheIsEmpty ==
    (cacheRead /\ ~cacheFile.parses) =>
        ~(pc = "crashed" /\ thrown = "JSON.parse")

(***************************************************************************)
(* C14: a failure of a cache persistence write (periodic or final) does    *)
(* not abort the execution: the resolution of the remaining paths, the     *)
(* selection and the deletion of every group still take place.             *)
(***************************************************************************)
C14_WriteFailureDoesNotAbort ==
    ~(pc = "crashed" /\ thrown = "writeFile")

(***************************************************************************)
(* C15: when a remote delete call fails for one file the failure is        *)
(* absorbed: a remote delete is still issued for every remaining file of   *)
(* the group that is marked Delete, and every subsequent group is still    *)
(* processed. At every point of the deletion pass of a real run, the calls *)
(* issued so far are exactly the marked files of the groups already        *)
(* processed followed by those of the current group up to the loop index,  *)
(* whatever the outcome of each call.                                      *)
(***************************************************************************)
RECURSIVE markedPaths(_, _)
markedPaths(fs, map) ==
    IF fs = <<>> THEN <<>>
    ELSE (IF MapHas(map, Head(fs).fileid) THEN <<Head(fs).filepath>>
          ELSE <<>>) \o markedPaths(Tail(fs), map)

verdictPaths(k) ==
    LET fs == sort(liveFiles(fileInfo, results[k]))
    IN IF Len(fs) < 2 THEN <<>>
       ELSE markedPaths(fs, select(fs, exclude, include).toDelete)

RECURSIVE verdictPathsUpTo(_)
verdictPathsUpTo(k) ==
    IF k = 0 THEN <<>> ELSE verdictPathsUpTo(k - 1) \o verdictPaths(k)

expectedCalls ==
    verdictPathsUpTo(g - 1)
    \o (IF pc = "deleting"
        THEN markedPaths(SubSeq(files, 1, d - 1), toDelete) ELSE <<>>)

calledPaths == [n \in 1..Len(deleteCalls) |-> deleteCalls[n].path]

C15_DeleteFailureIsAbsorbed ==
    (~args.dryRun /\ pc \in {"groups", "deleting", "done"}) =>
        /\ calledPaths = expectedCalls
        /\ thrown = "none"

C15_Witness ==
    /\ ~args.dryRun
    /\ pc = "done"
    /\ Len(results) = 2
    /\ Len(deleteCalls) = 3
    /\ ~deleteCalls[1].ok
    /\ ~deleteCalls[2].ok
    /\ calledPaths = verdictPaths(1) \o verdictPaths(2)

(***************************************************************************)
(* C16: for a path under the trash prefix "files_trashbin" the resolution  *)
(* never issues a remote status query and the path resolves to Absent, so  *)
(* the file is filtered out of its group and never passed to remote        *)
(* delete.                                                                 *)
(***************************************************************************)
underTrash(path) ==
    /\ Len(path) >= Len(TrashPrefix)
    /\ \A n \in 1..Len(TrashPrefix) : path[n] = TrashPrefix[n]

C16_TrashIsAbsentWithoutQuery ==
    /\ \A n \in 1..Len(statCalls) : ~underTrash(statCalls[n].path)
    /\ \A path \in DOMAIN fileInfo : underTrash(path) => ~fileInfo[path]
    /\ \A n \in 1..Len(files) : ~underTrash(files[n].filepath)
    /\ \A n \in 1..Len(deleteCalls) : ~underTrash(deleteCalls[n].path)

C16_Witness ==
    /\ pc = "done"
    /\ ~args.dryRun
    /\ \E path \in recorded : underTrash(path) /\ ~fileInfo[path]
    /\ \E n \in 1..Len(results[1].files) :
          underTrash(results[1].files[n].filepath)
    /\ Len(results[1].files) = 3
    /\ Len(deleteCalls) = 3

\* the group k has fewer than 2 live files
inert(k) == Len(liveFiles(fileInfo, results[k])) < 2

deleteCalled(path) ==
    \E n \in 1..Len(deleteCalls) : deleteCalls[n].path = path

(***************************************************************************)
(* C17, as claimed: for every group with fewer than 2 live files (0 or 1   *)
(* after the Absent paths are filtered out) no verdict is produced and no  *)
(* remote delete call is issued for any file of that group.                *)
(***************************************************************************)
C17_NoFileOfInertGroupDeleted ==
    /\ (pc = "groups" /\ g > 1 /\ inert(g - 1)) => toDelete = EmptyMap
    /\ \A k \in 1..Len(results) :
          inert(k) =>
              \A n \in 1..Len(results[k].files) :
                  ~deleteCalled(results[k].files[n].filepath)

(***************************************************************************)
(* C17, amended: for every group with fewer than 2 live files (0 or 1      *)
(* after the Absent paths are filtered out) no verdict is produced, and no *)
(* remote delete call is issued for any file of that group unless the file *)
(* is also a live file of a group with at least 2 live files. The step     *)
(* that reads such a group leaves toDelete empty and goes to the next      *)
(* group without a call, and a call is only issued in the deletion loop of *)
(* a group with at least 2 live files, for a file that group marked.       *)
(***************************************************************************)
C17_FewerThanTwoIsInert ==
    [][/\ (pc = "groups" /\ g <= Len(results) /\ Len(files') < 2) =>
             /\ toDelete' = EmptyMap
             /\ pc' = "groups"
             /\ g' = g + 1
             /\ deleteCalls' = deleteCalls
       /\ (deleteCalls' # deleteCalls /\ deleteCalls' # <<>>) =>
             /\ pc = "deleting"
             /\ Len(files) >= 2
             /\ MapHas(toDelete, files[d].fileid)
       /\ \A k \in 1..Len(results) :
             inert(k) =>
                 \A n \in 1..Len(results[k].files) :
                     deleteCalled(results[k].files[n].filepath) =>
                         \E j \in 1..Len(results) :
                             /\ ~inert(j)
                             /\ \E m \in 1..Len(results[j].files) :
                                   /\ IsLive(fileInfo, results[j].files[m])
                                   /\ results[j].files[m].filepath =
                                         results[k].files[n].filepath]_vars

\* the run is over; a group with one live file out of several was skipped,
\* and that file has been deleted for another group
C17_Witness ==
    /\ pc = "done"
    /\ ~args.dryRun
    /\ \E k \in 1..Len(results) :
          /\ Len(results[k].files) >= 2
          /\ Len(liveFiles(fileInfo, results[k])) = 1
          /\ deleteCalled(liveFiles(fileInfo, results[k])[1].filepath)

(***************************************************************************)
(* C18, as claimed: the sequence the selector walks is ordered by size     *)
(* descending and, among files of equal size, by path length descending    *)
(* (longer paths come earlier than shorter ones).                          *)
(***************************************************************************)
C18_LongerPathsFirst ==
    Selected =>
        \A m, n \in 1..Len(files) :
            m < n =>
                /\ files[m].filesize >= files[n].filesize
                /\ files[m].filesize = files[n].filesize =>
                      Len(files[m].filepath) >= Len(files[n].filepath)

(***************************************************************************)
(* C18, amended: the sequence the selector walks is ordered by size        *)
(* descending and, among files of equal size, by path length ascending     *)
(* (shorter paths come earlier than longer ones).                          *)
(***************************************************************************)
C18_ShorterPathsFirst ==
    Selected =>
        \A m, n \in 1..Len(files) :
            m < n =>
                /\ files[m].filesize >= files[n].filesize
                /\ files[m].filesize = files[n].filesize =>
                      Len(files[m].filepath) <= Len(files[n].filepath)

C18_Witness ==
    /\ Selected
    /\ Len(files) >= 3
    /\ files[1].filesize = files[2].filesize
    /\ Len(files[1].filepath) < Len(files[2].filepath)
    /\ files[3].filesize < files[2].filesize
    /\ results[1].files[1] = files[3]
    /\ results[1].files[2] = files[2]

(***************************************************************************)
(* C19: at the end of a real run over any sequence of groups, including    *)
(* groups that share a path, every group that had N >= 2 live files still  *)
(* has at least one live file for which no remote delete call was issued   *)
(* during the run.                                                         *)
(***************************************************************************)
C19_EveryGroupKeepsOne ==
    (pc = "done" /\ ~args.dryRun) =>
        \A k \in 1..Len(results) :
            LET live == liveFiles(fileInfo, results[k])
            IN Len(live) >= 2 =>
                  \E n \in 1..Len(live) : ~deleteCalled(live[n].filepath)

(***************************************************************************)
(* C20: for every group with N >= 2 live files the main pass keeps at most *)
(* one file, so the none-deleted correction is never executed: no file     *)
(* ever receives the reason "excluded-last"; and in the all-deleted        *)
(* correction firstNonIncludedWithSameSize is always a valid index (< N),  *)
(* so the last operand, the first file overall, is never the one used.     *)
(***************************************************************************)
mainPass == walk(files, exclude, include, Len(files))
keptByMainPass ==
    {n \in 1..Len(files) : ~MapHas(mainPass.toDelete, files[n].fileid)}

C20_LastResortsAreDead ==
    Selected =>
        /\ DistinctIds => Cardinality(keptByMainPass) <= 1
        /\ DOMAIN mainPass.toDelete # {}
        /\ \A id \in DOMAIN toDelete : toDelete[id] # "excluded-last"
        /\ firstNonIncludedWithSameSize < Len(files)
        /\ fallback # "first"

C20_Witness ==
    /\ pc = "deleting"
    /\ DistinctIds
    /\ Len(files) >= 3
    /\ \A n \in 1..Len(files) : matchesExclude(n)
    /\ Kept = {1}
    /\ \A n \in 2..Len(files) : reasonOf(n) = "excluded-dupe"

====
